---- MODULE Spec2Model ----
(***************************************************************************)
(* Model of the HTTPS client side of library/neh/https.cpp: the output     *)
(* connection cache (TConnCache: Connect, Release, TConnector jobs, the    *)
(* purger thread) and the client request driver (THttpsRequest::DoRun).    *)
(*                                                                         *)
(* Scheduling.  Requests and the connector jobs they create are coroutines *)
(* of an executor thread: a coroutine runs until it suspends in ConnectD,  *)
(* PollD, PollT or a read/write of the bio, and only then another          *)
(* coroutine of the same thread runs.  The purger is a system thread of    *)
(* its own.  Every access to a shared object (an atomic counter, a         *)
(* lock-free queue, InPurging_, the condition variable) is one step, and   *)
(* steps of different threads interleave freely.                           *)
(*                                                                         *)
(* Environment.  What the user and the network do (cancel a handle, delay  *)
(* a connect, close or fail a socket, answer with a bad status) is chosen  *)
(* freely, up to MaxEvents such events in a run.                           *)
(***************************************************************************)
EXTENDS Integers, Sequences, FiniteSets, TLC

\* ---------------------------------------------------------------- bounds
NumReq == 2
NumThreads == 1
MaxHostId == 2
MaxHard == 2
MaxEvents == 1

\* ------------------------------------------------------ program constants
SSL_RVAL_TIMEOUT == -42
ConnectDeadlineMs == 10000
ConnectFirstDelayMs == 8
MaxConnIdCap == 1024
MinFrac256 == 256 \div 32

\* errno values returned by the coroutine I/O primitives
ETIMEDOUT == 110
EINTR == 4
ECANCELED == 125

\* ------------------------------------------------------------ identities
\* request r; the connector it creates for a fresh socket; the connector it
\* creates to take over its half-open socket
Reqs == 1..NumReq
Jobs == (NumReq + 1)..(3 * NumReq)
Procs == Reqs \cup Jobs
FreshJob(r) == NumReq + r
TakeoverJob(r) == 2 * NumReq + r

Hosts == 1..MaxHostId
QueueIds == 0..MaxHostId

\* the TSslSocketHolder made by request r in Connect, and the one made by the
\* connector FreshJob(r)
OwnSock(r) == r
JobSock(j) == j
SockIds == 1..(2 * NumReq)
NoSock == 0

VARIABLES
    Limits,          \* TConnCache::Limits  [Soft, Hard]
    ActiveSockets,   \* TConnCache::ActiveSockets
    CachedSockets,   \* TConnCache::CachedSockets
    Lst_,            \* TConnCache::Lst_ : host id -> queue of idle sockets
    InPurging_,      \* TConnCache::InPurging_
    MaxConnId_,      \* TConnCache::MaxConnId_
    SslIOStream,     \* TSslSocketHolder::SslIOStream of every socket
    proc,            \* locals of every request (DoRun) and connector job
    hndl,            \* the handle of every request
    purger,          \* locals of the purger thread (DoExecute/PurgeCache)
    env,             \* what the user and the network may still do
    fn               \* the call of a function under study: arguments, result

vars == <<Limits, ActiveSockets, CachedSockets, Lst_, InPurging_, MaxConnId_,
          SslIOStream, proc, hndl, purger, env, fn>>

\* ------------------------------------------------------------- TFdLimits
\* NHttp::TFdLimits::ExceedLimit(val, limit)
ExceedLimit(val, limit) == IF val > limit THEN val - limit ELSE 0

\* NHttp::TFdLimits::Delta()
Delta(l) == ExceedLimit(l.Hard, l.Soft)

Min2(a, b) == IF a < b THEN a ELSE b
Max2(a, b) == IF a > b THEN a ELSE b

\* ------------------------------------------------------ TConnCache reads
TotalSockets == ActiveSockets + CachedSockets

ExceedSoftLimit == ExceedLimit(TotalSockets, Limits.Soft)

\* an ExceedHardLimit that already reports the limit itself as exceeded
ExceedHardLimit_AtLimit == ExceedLimit(TotalSockets + 1, Limits.Hard)

ExceedHardLimit == ExceedLimit(TotalSockets, Limits.Hard)

\* TAutoLockFreeQueue: Enqueue at the tail, Dequeue from the head
QEnqueue(q, s) == Append(q, s)
QHead(q) == Head(q)
QRest(q) == Tail(q)
QSize(q) == Len(q)

ConnList(h) == Lst_[h]

\* TContBIO::Cont_ of a bio no coroutine is bound to (nullptr)
NoCont == 0

\* the TLS side of a connection, TSslSocketHolder::SslIOStream: io, a
\* TSslClientIOStream is attached (with its TContBIO); Ssl_, the stream holds
\* an SSL object; handshakes, how often Handshake ran on it; Cont_, the
\* coroutine the bio is bound to.  NoStream is the holder after construction
NoStream == [io |-> FALSE, Ssl_ |-> FALSE, handshakes |-> 0, Cont_ |-> NoCont]

\* TContBIO::AcquireCont and ReleaseCont, as TContBIOWatcher calls them
AcquireCont(io, c) == [io EXCEPT !.Cont_ = c]

\* a ReleaseCont that leaves the coroutine bound
ReleaseCont_Keeps(io) == io

ReleaseCont(io) == [io EXCEPT !.Cont_ = NoCont]

\* an Initialized that never sees the SSL object
Initialized_Never(io) == FALSE

\* TSslClientIOStream::Initialized: the stream holds an SSL object
Initialized(io) == io.Ssl_

\* a DoRun that makes a new stream for every connection it gets
SetSslStream_Always(io) == [io EXCEPT !.io = TRUE, !.Ssl_ = FALSE]

\* DoRun before the try block: the stream of the connection is taken, or a
\* TSslClientIOStream is made and attached when there is none
SetSslStream(io) == IF io.io THEN io ELSE [io EXCEPT !.io = TRUE]

\* TSslClientIOStream::Handshake, first statement: Ssl_ = SSL_new(...)
NewSsl(io) == [io EXCEPT !.Ssl_ = TRUE, !.handshakes = @ + 1]

\* ~TSslSocketHolder: the fd is closed and the SslIOStream deleted
Destroy(S, socks) == [s \in SockIds |-> IF s \in socks THEN NoStream ELSE S[s]]

\* --------------------------------------------------------------- records
IdleProc(h, t) ==
    [pc |-> "idle", host |-> h, thr |-> t, res |-> NoSock, res2 |-> NoSock,
     conn |-> NoSock, reused |-> FALSE, delay |-> 0]

FreeJob == [IdleProc(0, 0) EXCEPT !.pc = "free"]

IdleHandle == [canceled |-> FALSE, nResponse |-> 0, nError |-> 0, errType |-> "none",
               errText |-> "none"]

IdlePurger ==
    [pc |-> "idle", i |-> 0, frac256 |-> 0, purgeCounter |-> 0, res |-> NoSock,
     startCached |-> 0, released |-> FALSE]

\* the executor thread of every request, up to renaming of the threads
ThreadMaps ==
    {ts \in [Reqs -> 1..NumThreads] :
        \A r \in Reqs : \A t \in 1..(ts[r] - 1) : \E q \in 1..(r - 1) : ts[q] = t}

\* a coroutine is suspended at these places only: before it is started, inside
\* ConnectD/PollD/PollT, inside the reads and writes of the bio, when it ended
SuspendPcs == {"idle", "wait", "tls", "recv", "run", "done", "free"}

\* the executor thread of p runs p: every other coroutine of it is suspended
Runs(p) ==
    \A q \in Procs \ {p} : proc[q].thr = proc[p].thr => proc[q].pc \in SuspendPcs

\* TConnCache() and one THttpsRequest per Reqs, scheduled but not yet run;
\* the limits are any soft < hard, the requests are numbered by host id
\* no function is under study: the cache and its requests run
NoCall == [op |-> "none"]

Init ==
    /\ Limits \in {l \in [Soft : 0..MaxHard, Hard : 1..MaxHard] : l.Soft < l.Hard}
    /\ ActiveSockets = 0
    /\ CachedSockets = 0
    /\ Lst_ = [h \in QueueIds |-> <<>>]
    /\ InPurging_ = 0
    /\ MaxConnId_ = 0
    /\ SslIOStream = [s \in SockIds |-> NoStream]
    /\ \E hs \in {f \in [Reqs -> Hosts] : \A r \in Reqs \ {1} : f[r - 1] <= f[r]},
          ts \in ThreadMaps :
          proc = [p \in Procs |-> IF p \in Reqs THEN IdleProc(hs[p], ts[p]) ELSE FreeJob]
    /\ hndl = [r \in Reqs |-> IdleHandle]
    /\ purger = IdlePurger
    /\ env = [events |-> MaxEvents]
    /\ fn = NoCall

\* the environment spends f of its events (f = 0: the step goes well)
Spend(f) == /\ f <= env.events
            /\ env' = [env EXCEPT !.events = @ - f]

\* a choice of the environment: TRUE, or FALSE at the price of an event
Ok == IF env.events > 0 THEN BOOLEAN ELSE {TRUE}

Cost(ok) == IF ok THEN 0 ELSE 1

\* ------------------------------------------------------------ the handle
\* TSimpleHandle::NotifyError
NotifyError(h, type, text) ==
    [h EXCEPT !.nError = @ + 1, !.errType = type, !.errText = text]

\* TSimpleHandle::NotifyResponse
NotifyResponse(h) == [h EXCEPT !.nResponse = @ + 1]

\* the user cancels the handle of a request that has not completed
Cancel(r) ==
    /\ proc[r].pc # "done"
    /\ ~hndl[r].canceled
    /\ Spend(1)
    /\ hndl' = [hndl EXCEPT ![r].canceled = TRUE]
    /\ UNCHANGED <<Limits, ActiveSockets, CachedSockets, Lst_, InPurging_,
                   MaxConnId_, SslIOStream, proc, purger>>
    /\ UNCHANGED fn

\* a Connect that creates no connector job
SpawnConnector_Never(r, j, sock, ok) ==
    <<proc, Destroy(SslIOStream, {sock} \ {NoSock})>>

\* ------------------------------------------------------- connector jobs
\* new TConnector(...) and c->Executor()->Create(*job, "https-con") inside
\* try/catch, by request r: the job j is created on r's executor (ok), or
\* Create throws and the job object, with its socket, is deleted
SpawnConnector(r, j, sock, ok) ==
    IF ok
    THEN <<[proc EXCEPT ![j] = [FreeJob EXCEPT !.pc = "run", !.host = proc[r].host,
                                               !.thr = proc[r].thr, !.res = sock]],
           SslIOStream>>
    ELSE <<proc, Destroy(SslIOStream, {sock} \ {NoSock})>>

\* ------------------------------------------------------------ TLS layer
\* a BIOReadMethod that does not look at the cancellation flag
BIOReadMethod_NoCancel(cont, canceled, net) == IF cont = NoCont THEN -1 ELSE net

\* TContBIO::BIOReadMethod with a cancellation flag attached: the flag is
\* looked at before every read of the socket; `net` is what the socket
\* delivers otherwise (>0 bytes, 0 orderly close, <0 fatal)
BIOReadMethod(cont, canceled, net) ==
    IF cont = NoCont THEN -1 ELSE IF canceled THEN SSL_RVAL_TIMEOUT ELSE net

\* TContBIO::BIOWriteMethod: -1 without a bound coroutine, else what WriteI
\* of the socket gives
BIOWriteMethod(cont, net) == IF cont = NoCont THEN -1 ELSE net

\* TSslClientIOStream::Handshake from SSL_do_handshake on: the exception it
\* ends with ("none": it returns).  rval: what SSL_do_handshake returned (the
\* value of the failed BIO read, or 1); hostOk: the outcome of
\* CheckCertHostname, consulted only under CheckCertificateHostname
Handshake(rval, checkHost, hostOk) ==
    IF rval # 1
    THEN IF rval = SSL_RVAL_TIMEOUT THEN "TSystemError_ECANCELED" ELSE "TSslException"
    ELSE IF checkHost /\ ~hostOk THEN "TSslException_CheckCertHostname"
    ELSE "none"

\* TSslIOStream::DoRead: the exception thrown for the value SSL_read returned;
\* shut: the peer's close-notify was received
DoRead(rval, shut) ==
    IF rval < 0
    THEN IF rval = SSL_RVAL_TIMEOUT THEN "TSystemError_ECANCELED" ELSE "TSslException"
    ELSE IF rval = 0 /\ ~shut THEN "TSslException"
    ELSE "none"

\* THttpsRequest::ProcessRecv, after the body was read: the error for a status
ProcessRecv(code) == IF code < 200 \/ code > 299 THEN "ProtocolSpecific" ELSE "none"

\* the two catch blocks of THttpsRequest::DoRun; cancelled is c->Cancelled()
CatchError(exc, cancelled) ==
    IF exc \in {"TSystemError_ECANCELED", "TSystemError"}
    THEN IF cancelled \/ exc = "TSystemError_ECANCELED" THEN "Cancelled" ELSE "Unknown"
    ELSE IF cancelled THEN "Cancelled" ELSE "Unknown"

\* the text of the TError the catch blocks make: "canceled", or
\* CurrentExceptionMessage(), which holds the text the exception was thrown
\* with ("CheckCertHostname(client)" for a certificate of another host)
CatchText(exc, cancelled) ==
    IF CatchError(exc, cancelled) = "Cancelled" THEN "canceled"
    ELSE IF exc = "TSslException_CheckCertHostname" THEN "CheckCertHostname(client)"
    ELSE "exception"

GoodCodes == {200, 299}
BadCodes == {199, 300}

\* ------------------------------------------------------ THttpsRequest::DoRun
\* DoRun up to the first step of Connect: the coroutine is already cancelled,
\* or Connect finds the hard limit exceeded (both notify and return), or
\* Connect goes on to the host's queue
DoRunBegin(r) ==
    /\ proc[r].pc = "idle"
    /\ Runs(r)
    /\ \E notCancelled \in Ok :
          /\ Spend(Cost(notCancelled))
          /\ IF ~notCancelled
             THEN /\ hndl' = [hndl EXCEPT ![r] = NotifyError(@, "Cancelled", "canceled")]
                  /\ proc' = [proc EXCEPT ![r].pc = "done"]
             ELSE IF ExceedHardLimit # 0
             THEN /\ hndl' = [hndl EXCEPT ![r] = NotifyError(@, "OutputLimit", "limit reached")]
                  /\ proc' = [proc EXCEPT ![r].pc = "done"]
             ELSE /\ hndl' = hndl
                  /\ proc' = [proc EXCEPT ![r].pc = "drain"]
    /\ UNCHANGED <<Limits, ActiveSockets, CachedSockets, Lst_, InPurging_,
                   MaxConnId_, SslIOStream, purger>>
    /\ UNCHANGED fn

\* Connect: connList.Dequeue(&res) of the drain loop.  On an empty queue the
\* fresh connect starts: the reserve connector is created, the socket is made
\* and ConnectD is issued with the first checkpoint
DrainDequeue(r) ==
    /\ proc[r].pc = "drain"
    /\ Runs(r)
    /\ LET h == proc[r].host IN
       IF QSize(ConnList(h)) # 0
       THEN /\ Lst_' = [Lst_ EXCEPT ![h] = QRest(@)]
            /\ proc' = [proc EXCEPT ![r].pc = "drainDec", ![r].res = QHead(ConnList(h))]
            /\ UNCHANGED <<SslIOStream, env>>
       ELSE /\ Lst_' = Lst_
            /\ \E created \in Ok :
                  LET sp == SpawnConnector(r, FreshJob(r), NoSock, created) IN
                  /\ Spend(Cost(created))
                  /\ proc' = [sp[1] EXCEPT ![r].pc = "wait", ![r].res = OwnSock(r),
                                           ![r].delay = ConnectFirstDelayMs]
                  /\ SslIOStream' = sp[2]
    /\ UNCHANGED <<Limits, ActiveSockets, CachedSockets, InPurging_, MaxConnId_,
                   hndl, purger>>
    /\ UNCHANGED fn

\* Connect: CachedSockets.Dec() after a successful Dequeue of the drain loop
DrainDec(r) ==
    /\ proc[r].pc = "drainDec"
    /\ Runs(r)
    /\ CachedSockets' = CachedSockets - 1
    /\ proc' = [proc EXCEPT ![r].pc = "drainChk"]
    /\ UNCHANGED <<Limits, ActiveSockets, Lst_, InPurging_, MaxConnId_,
                   SslIOStream, hndl, purger, env>>
    /\ UNCHANGED fn

\* Connect: SocketNotClosedByOtherSide(*res) of the drain loop.  A live socket
\* is returned as a reused TConnection (after the reserve connector is created
\* when the queue was left empty); a closed one is dropped and the loop goes on
DrainCheck(r) ==
    /\ proc[r].pc = "drainChk"
    /\ Runs(r)
    /\ LET h == proc[r].host
           s == proc[r].res IN
       \E alive \in Ok :
          IF alive
          THEN /\ ActiveSockets' = ActiveSockets + 1
               /\ IF QSize(ConnList(h)) = 0
                  THEN \E created \in Ok :
                          LET sp == SpawnConnector(r, FreshJob(r), NoSock, created) IN
                          /\ Spend(Cost(created))
                          /\ proc' = [sp[1] EXCEPT ![r].pc = "tls", ![r].conn = s,
                                                   ![r].res = NoSock, ![r].reused = TRUE]
                          /\ SslIOStream' = sp[2]
                  ELSE /\ proc' = [proc EXCEPT ![r].pc = "tls", ![r].conn = s,
                                               ![r].res = NoSock, ![r].reused = TRUE]
                       /\ UNCHANGED <<SslIOStream, env>>
          ELSE /\ Spend(1)
               /\ ActiveSockets' = ActiveSockets
               /\ proc' = [proc EXCEPT ![r].pc = "drain", ![r].res = NoSock]
               /\ SslIOStream' = Destroy(SslIOStream, {s})
    /\ UNCHANGED <<Limits, CachedSockets, Lst_, InPurging_, MaxConnId_, hndl, purger>>
    /\ UNCHANGED fn

\* a delay that is never doubled
NextDelay_Same(delay) == delay

\* Connect: delay += delay
NextDelay(delay) == delay + delay

\* the values ConnectD/PollD can return: connected, a timeout at the
\* checkpoint or an interrupt, a fatal error
WaitResults ==
    {0} \cup (IF env.events > 0 THEN {ETIMEDOUT, EINTR, ECANCELED} ELSE {})

\* Connect: the result of ConnectD / PollD at the current checkpoint.
\* checkpoint < deadline iff the current delay is below the 10 s deadline
ConnectWait(r) ==
    /\ proc[r].pc = "wait"
    /\ Runs(r)
    /\ LET h == proc[r].host
           s == proc[r].res IN
       \E ret \in WaitResults :
          /\ Spend(IF ret = 0 THEN 0 ELSE 1)
          /\ IF ret = 0
             THEN /\ ActiveSockets' = ActiveSockets + 1
                  /\ proc' = [proc EXCEPT ![r].pc = "tls", ![r].conn = s,
                                          ![r].res = NoSock, ![r].reused = FALSE,
                                          ![r].delay = 0]
                  /\ UNCHANGED <<Lst_, SslIOStream, hndl>>
             ELSE IF ret \in {ETIMEDOUT, EINTR} /\ proc[r].delay < ConnectDeadlineMs
             THEN /\ ActiveSockets' = ActiveSockets
                  /\ IF QSize(ConnList(h)) # 0
                     THEN /\ Lst_' = [Lst_ EXCEPT ![h] = QRest(@)]
                          /\ proc' = [proc EXCEPT ![r].pc = "retryDec",
                                                  ![r].res2 = QHead(ConnList(h)),
                                                  ![r].delay = NextDelay(@)]
                     ELSE /\ Lst_' = Lst_
                          /\ proc' = [proc EXCEPT ![r].delay = NextDelay(@)]
                  /\ UNCHANGED <<SslIOStream, hndl>>
             ELSE /\ ActiveSockets' = ActiveSockets
                  /\ Lst_' = Lst_
                  /\ SslIOStream' = Destroy(SslIOStream, {s})
                  /\ hndl' = [hndl EXCEPT ![r] = NotifyError(@, "Connect", "can not connect")]
                  /\ proc' = [proc EXCEPT ![r].pc = "done", ![r].res = NoSock,
                                          ![r].delay = 0]
    /\ UNCHANGED <<Limits, CachedSockets, InPurging_, MaxConnId_, purger>>
    /\ UNCHANGED fn

\* Connect: CachedSockets.Dec() after connList.Dequeue(&res2) in the retry loop
RetryDec(r) ==
    /\ proc[r].pc = "retryDec"
    /\ Runs(r)
    /\ CachedSockets' = CachedSockets - 1
    /\ proc' = [proc EXCEPT ![r].pc = "retryChk"]
    /\ UNCHANGED <<Limits, ActiveSockets, Lst_, InPurging_, MaxConnId_,
                   SslIOStream, hndl, purger, env>>
    /\ UNCHANGED fn

\* Connect: SocketNotClosedByOtherSide(*res2) in the retry loop.  A live res2
\* is adopted: the half-open res goes to a second connector, res = res2 and
\* the loop is left; a closed res2 is dropped and PollD is issued
RetryCheck(r) ==
    /\ proc[r].pc = "retryChk"
    /\ Runs(r)
    /\ LET s == proc[r].res
           s2 == proc[r].res2 IN
       \E alive \in Ok :
          IF alive
          THEN /\ ActiveSockets' = ActiveSockets + 1
               /\ \E created \in Ok :
                     LET sp == SpawnConnector(r, TakeoverJob(r), s, created) IN
                     /\ Spend(Cost(created))
                     /\ proc' = [sp[1] EXCEPT ![r].pc = "tls", ![r].conn = s2,
                                              ![r].res = NoSock, ![r].res2 = NoSock,
                                              ![r].reused = FALSE, ![r].delay = 0]
                     /\ SslIOStream' = sp[2]
          ELSE /\ Spend(1)
               /\ ActiveSockets' = ActiveSockets
               /\ proc' = [proc EXCEPT ![r].pc = "wait", ![r].res2 = NoSock]
               /\ SslIOStream' = Destroy(SslIOStream, {s2})
    /\ UNCHANGED <<Limits, CachedSockets, Lst_, InPurging_, MaxConnId_, hndl, purger>>
    /\ UNCHANGED fn

\* a DoRun whose failed connection stays with the request, open
Fail_KeepsConn(r, e, text) ==
    /\ hndl' = [hndl EXCEPT ![r] = NotifyError(@, e, text)]
    /\ ActiveSockets' = ActiveSockets - 1
    /\ SslIOStream' = SslIOStream
    /\ proc' = [proc EXCEPT ![r].pc = "done"]

\* a DoRun that returns on an error without NotifyError
Fail_Silent(r, e, text) ==
    /\ hndl' = hndl
    /\ ActiveSockets' = ActiveSockets - 1
    /\ SslIOStream' = Destroy(SslIOStream, {proc[r].conn})
    /\ proc' = [proc EXCEPT ![r].pc = "done", ![r].conn = NoSock]

\* DoRun with an error: NotifyError, and the TConnection is destroyed at scope
\* exit (~TConnection: ActiveSockets.Dec(), the socket is closed)
Fail(r, e, text) ==
    /\ hndl' = [hndl EXCEPT ![r] = NotifyError(@, e, text)]
    /\ ActiveSockets' = ActiveSockets - 1
    /\ SslIOStream' = Destroy(SslIOStream, {proc[r].conn})
    /\ proc' = [proc EXCEPT ![r].pc = "done", ![r].conn = NoSock]

\* the same with the exception caught by one of the catch blocks
Throw(r, exc) ==
    \E cancelled \in BOOLEAN :
       Fail(r, CatchError(exc, cancelled), CatchText(exc, cancelled))

\* what a read of the socket delivers: bytes, or at the price of an event an
\* orderly close or a fatal error
NetResults == IF env.events > 0 THEN {1, 0, -1} ELSE {1}

\* the exceptions of SendTo (SSL_write fails) and of WaitUntilWritten
SendExceptions ==
    {"none"} \cup (IF env.events > 0
                   THEN {"TSslException", "TSystemError", "TSystemError_ECANCELED"}
                   ELSE {})

\* DoRun: the SslIOStream of the connection is taken (SetCanceledPtr) or
\* created and the bio bound to the coroutine; if the engine is not
\* Initialized, Handshake (SSL_new, the read through BIOReadMethod, the value
\* of SSL_do_handshake, the hostname check); then RequestData().SendTo(*io)
DoRunSend(r) ==
    /\ proc[r].pc = "tls"
    /\ Runs(r)
    /\ LET s == proc[r].conn
           io == AcquireCont(SetSslStream(SslIOStream[s]), r)
           fresh == ~Initialized(io)
           hsk == IF fresh THEN NewSsl(io) ELSE io IN
       \E net \in (IF fresh THEN NetResults ELSE {1}), checkHost \in BOOLEAN :
          LET rd == BIOReadMethod(hsk.Cont_, hndl[r].canceled, net)
              rval == IF rd > 0 THEN 1 ELSE rd IN
          \E hostOk \in (IF fresh /\ net = 1 /\ rval = 1 /\ checkHost THEN Ok ELSE {TRUE}) :
             LET hs == IF fresh THEN Handshake(rval, checkHost, hostOk) ELSE "none" IN
             \E snd \in (IF hs = "none" /\ net = 1 /\ hostOk THEN SendExceptions
                         ELSE {"none"}) :
                /\ Spend(IF net = 1 /\ hostOk /\ snd = "none" THEN 0 ELSE 1)
                /\ IF hs # "none" THEN Throw(r, hs)
                   ELSE IF snd # "none" THEN Throw(r, snd)
                   ELSE /\ proc' = [proc EXCEPT ![r].pc = "recv"]
                        /\ SslIOStream' = [SslIOStream EXCEPT ![s] = hsk]
                        /\ UNCHANGED <<hndl, ActiveSockets>>
    /\ UNCHANGED <<Limits, CachedSockets, Lst_, InPurging_, MaxConnId_, purger>>
    /\ UNCHANGED fn

\* DoRun: ProcessRecv (WaitUntilWritten, then THttpInput and ReadAll through
\* DoRead) and the classification of the status; without error DoRun goes on
\* to Release.  full: the whole message arrived (else the parser throws)
DoRunRecv(r) ==
    /\ proc[r].pc = "recv"
    /\ Runs(r)
    /\ \E net \in NetResults, shut \in BOOLEAN :
          LET s == proc[r].conn
              rd == BIOReadMethod(SslIOStream[s].Cont_, hndl[r].canceled, net)
              exc == DoRead(rd, shut) IN
          IF exc # "none"
          THEN /\ Spend(IF net = 1 THEN 0 ELSE 1)
               /\ Throw(r, exc)
          ELSE \E full \in (IF net = 1 THEN Ok ELSE {TRUE}),
                  code \in GoodCodes \cup (IF net = 1 /\ env.events > 0 THEN BadCodes ELSE {}) :
                  /\ ~(net = 1 /\ full) => code = 200
                  /\ Spend(IF net = 1 /\ full /\ code \in GoodCodes THEN 0 ELSE 1)
                  /\ IF ~full
                     THEN Throw(r, "yexception")
                     ELSE IF ProcessRecv(code) # "none"
                     THEN Fail(r, ProcessRecv(code), "request failed")
                     ELSE /\ proc' = [proc EXCEPT ![r].pc = "relChk"]
                          /\ SslIOStream' = [SslIOStream EXCEPT ![s] = ReleaseCont(@)]
                          /\ UNCHANGED <<hndl, ActiveSockets>>
    /\ UNCHANGED <<Limits, CachedSockets, Lst_, InPurging_, MaxConnId_, purger>>
    /\ UNCHANGED fn

\* ------------------------------------------------------ TConnCache::Release
\* Release(conn) by the request or connector p: the test of the hard limit
\* and, under it, the CAS loop that raises MaxConnId_ to the host id
ReleaseCheck(p) ==
    /\ proc[p].pc = "relChk"
    /\ Runs(p)
    /\ IF ExceedHardLimit = 0
       THEN /\ MaxConnId_' = Max2(MaxConnId_, proc[p].host)
            /\ proc' = [proc EXCEPT ![p].pc = "relInc"]
       ELSE /\ MaxConnId_' = MaxConnId_
            /\ proc' = [proc EXCEPT ![p].pc = "relSug"]
    /\ UNCHANGED <<Limits, ActiveSockets, CachedSockets, Lst_, InPurging_,
                   SslIOStream, hndl, purger, env>>
    /\ UNCHANGED fn

\* a Release that does not count the socket it caches
ReleaseInc_NoCount(p) ==
    /\ proc[p].pc = "relInc"
    /\ Runs(p)
    /\ proc' = [proc EXCEPT ![p].pc = "relDec"]
    /\ UNCHANGED <<Limits, ActiveSockets, CachedSockets, Lst_, InPurging_,
                   MaxConnId_, SslIOStream, hndl, purger, env>>
    /\ UNCHANGED fn

\* Release: CachedSockets.Inc()
ReleaseInc(p) ==
    /\ proc[p].pc = "relInc"
    /\ Runs(p)
    /\ CachedSockets' = CachedSockets + 1
    /\ proc' = [proc EXCEPT ![p].pc = "relDec"]
    /\ purger' = IF purger.pc \in {"idle", "wait"} THEN purger
                 ELSE [purger EXCEPT !.released = TRUE]
    /\ UNCHANGED <<Limits, ActiveSockets, Lst_, InPurging_, MaxConnId_,
                   SslIOStream, hndl, env>>
    /\ UNCHANGED fn

\* Release: ActiveSockets.Dec()
ReleaseDec(p) ==
    /\ proc[p].pc = "relDec"
    /\ Runs(p)
    /\ ActiveSockets' = ActiveSockets - 1
    /\ proc' = [proc EXCEPT ![p].pc = "relEnq"]
    /\ UNCHANGED <<Limits, CachedSockets, Lst_, InPurging_, MaxConnId_,
                   SslIOStream, hndl, purger, env>>
    /\ UNCHANGED fn

\* a Release whose Enqueue copies conn.Socket and leaves it in the connection
ReleaseEnqueue_KeepsSocket(p) ==
    /\ proc[p].pc = "relEnq"
    /\ Runs(p)
    /\ Lst_' = [Lst_ EXCEPT ![proc[p].host] = QEnqueue(@, proc[p].conn)]
    /\ proc' = [proc EXCEPT ![p].pc = "relSug"]
    /\ UNCHANGED <<Limits, ActiveSockets, CachedSockets, InPurging_, MaxConnId_,
                   SslIOStream, hndl, purger, env>>
    /\ UNCHANGED fn

\* Release: ConnList(conn.Host).Enqueue(conn.Socket); conn.Socket is moved
\* into the queue
ReleaseEnqueue(p) ==
    /\ proc[p].pc = "relEnq"
    /\ Runs(p)
    /\ Lst_' = [Lst_ EXCEPT ![proc[p].host] = QEnqueue(@, proc[p].conn)]
    /\ proc' = [proc EXCEPT ![p].pc = "relSug", ![p].conn = NoSock]
    /\ UNCHANGED <<Limits, ActiveSockets, CachedSockets, InPurging_, MaxConnId_,
                   SslIOStream, hndl, purger, env>>
    /\ UNCHANGED fn

\* Release: if (CachedSockets.Val() && ExceedSoftLimit()) SuggestPurgeCache(),
\* up to and including AtomicTryLock(&InPurging_)
ReleaseSuggest(p) ==
    /\ proc[p].pc = "relSug"
    /\ Runs(p)
    /\ IF CachedSockets # 0 /\ ExceedSoftLimit # 0 /\ InPurging_ = 0
       THEN /\ InPurging_' = 1
            /\ proc' = [proc EXCEPT ![p].pc = "sugGate"]
       ELSE /\ InPurging_' = InPurging_
            /\ proc' = [proc EXCEPT ![p].pc = "relEnd"]
    /\ UNCHANGED <<Limits, ActiveSockets, CachedSockets, Lst_, MaxConnId_,
                   SslIOStream, hndl, purger, env>>
    /\ UNCHANGED fn

\* a SuggestPurgeCache without its first test
PurgeUsefulOf_AnyCache(active, cached, maxConnId, limits) ==
    ((active + 1) * 256) \div (Delta(limits) + 1)
      + ((cached + 1) * 256) \div (active + 1) >= 256

\* SuggestPurgeCache: the two tests of the usefulness of a purge
PurgeUsefulOf(active, cached, maxConnId, limits) ==
    /\ cached > Min2(maxConnId, MaxConnIdCap) \div 16
    /\ ((active + 1) * 256) \div (Delta(limits) + 1)
         + ((cached + 1) * 256) \div (active + 1) >= 256

PurgeUseful == PurgeUsefulOf(ActiveSockets, CachedSockets, MaxConnId_, Limits)

\* CondPurge_.Signal() under PurgeMutex_: a purger inside WaitI is woken, and
\* nothing happens when there is none
Signal(pg) == IF pg.pc = "wait" THEN [pg EXCEPT !.pc = "woken"] ELSE pg

\* SuggestPurgeCache with InPurging_ taken: signal and return with the lock
\* held, or AtomicUnlock(&InPurging_)
SuggestPurgeCache(p) ==
    /\ proc[p].pc = "sugGate"
    /\ Runs(p)
    /\ IF PurgeUseful
       THEN /\ purger' = Signal(purger)
            /\ InPurging_' = InPurging_
       ELSE /\ purger' = purger
            /\ InPurging_' = 0
    /\ proc' = [proc EXCEPT ![p].pc = "relEnd"]
    /\ UNCHANGED <<Limits, ActiveSockets, CachedSockets, Lst_, MaxConnId_,
                   SslIOStream, hndl, env>>
    /\ UNCHANGED fn

\* after Release: DoRun calls NotifyResponse (a connector does not), and the
\* TConnection is destroyed: if it still has its socket, ActiveSockets.Dec()
\* and the socket is closed
ReleaseEnd(p) ==
    /\ proc[p].pc = "relEnd"
    /\ Runs(p)
    /\ hndl' = IF p \in Reqs THEN [hndl EXCEPT ![p] = NotifyResponse(@)] ELSE hndl
    /\ IF proc[p].conn # NoSock
       THEN /\ ActiveSockets' = ActiveSockets - 1
            /\ SslIOStream' = Destroy(SslIOStream, {proc[p].conn})
       ELSE UNCHANGED <<ActiveSockets, SslIOStream>>
    /\ proc' = [proc EXCEPT ![p] = IF p \in Reqs
                                    THEN [@ EXCEPT !.pc = "done", !.conn = NoSock]
                                    ELSE FreeJob]
    /\ UNCHANGED <<Limits, CachedSockets, Lst_, InPurging_, MaxConnId_, purger, env>>
    /\ UNCHANGED fn

\* TConnector::DoRun: a fresh socket is connected, or the socket taken over is
\* polled, within 300 ms; on success TConnection tc(...) and Release(tc), else
\* the job ends and its socket is closed
ConnectorRun(j) ==
    /\ proc[j].pc = "run"
    /\ Runs(j)
    /\ \E connected \in Ok :
          /\ Spend(Cost(connected))
          /\ IF connected
             THEN /\ ActiveSockets' = ActiveSockets + 1
                  /\ proc' = [proc EXCEPT ![j].pc = "relChk", ![j].res = NoSock,
                                 ![j].conn = IF proc[j].res = NoSock THEN JobSock(j)
                                             ELSE proc[j].res]
                  /\ SslIOStream' = SslIOStream
             ELSE /\ ActiveSockets' = ActiveSockets
                  /\ proc' = [proc EXCEPT ![j] = FreeJob]
                  /\ SslIOStream' = Destroy(SslIOStream, {proc[j].res} \ {NoSock})
    /\ UNCHANGED <<Limits, CachedSockets, Lst_, InPurging_, MaxConnId_, hndl, purger>>
    /\ UNCHANGED fn

\* -------------------------------------------------------- the purger thread
\* DoExecute: PurgeMutex_ is taken and CondPurge_.WaitI entered
PurgerWait ==
    /\ purger.pc = "idle"
    /\ purger' = [purger EXCEPT !.pc = "wait"]
    /\ UNCHANGED <<Limits, ActiveSockets, CachedSockets, Lst_, InPurging_,
                   MaxConnId_, SslIOStream, proc, hndl, env>>
    /\ UNCHANGED fn

\* a share that is always the least one, 1/32
Frac256Of_Least(excess, cached) == MinFrac256

\* PurgeCache: the share of every queue to purge, in 1/256
Frac256Of(excess, cached) ==
    Min2(Max2(MinFrac256, (excess * 256) \div (cached + 1)), 256)

Frac256 == Frac256Of(ExceedSoftLimit, CachedSockets)

\* DoExecute leaves WaitI and PurgeCache starts: frac256 is computed
PurgeStart ==
    /\ purger.pc = "woken"
    /\ purger' = [purger EXCEPT !.pc = "loop", !.i = 0, !.frac256 = Frac256,
                                !.startCached = CachedSockets, !.released = FALSE]
    /\ UNCHANGED <<Limits, ActiveSockets, CachedSockets, Lst_, InPurging_,
                   MaxConnId_, SslIOStream, proc, hndl, env>>
    /\ UNCHANGED fn

\* a purgeCounter that rounds the share of the queue up
PurgeCounter_RoundsUp(qsize, frac256) == (qsize * frac256 + 255) \div 256

\* PurgeCache: purgeCounter of a queue of qsize sockets
PurgeCounter(qsize, frac256) == (qsize * frac256) \div 256

\* PurgeCache: the loop test i < MaxConnId_ and the look at queue i
PurgeVisit ==
    /\ purger.pc = "loop"
    /\ IF purger.i < MaxConnId_
       THEN LET qsize == QSize(Lst_[purger.i])
                pc == PurgeCounter(qsize, purger.frac256) IN
            IF qsize = 0
            THEN purger' = [purger EXCEPT !.i = @ + 1]
            ELSE IF pc = 0
            THEN IF qsize <= 2
                 THEN purger' = [purger EXCEPT !.pc = "deadDeq", !.purgeCounter = 0]
                 ELSE purger' = [purger EXCEPT !.pc = "purgeDeq", !.purgeCounter = 1]
            ELSE purger' = [purger EXCEPT !.pc = "purgeDeq", !.purgeCounter = pc]
       ELSE purger' = [purger EXCEPT !.pc = "unlock", !.i = 0, !.frac256 = 0]
    /\ UNCHANGED <<Limits, ActiveSockets, CachedSockets, Lst_, InPurging_,
                   MaxConnId_, SslIOStream, proc, hndl, env>>
    /\ UNCHANGED fn

\* PurgeCache, qsize <= 2 and nothing to purge: tc.Dequeue(&res)
PurgeDeadDequeue ==
    /\ purger.pc = "deadDeq"
    /\ LET q == Lst_[purger.i] IN
       IF QSize(q) # 0
       THEN /\ Lst_' = [Lst_ EXCEPT ![purger.i] = QRest(@)]
            /\ purger' = [purger EXCEPT !.pc = "deadChk", !.res = QHead(q)]
       ELSE /\ Lst_' = Lst_
            /\ purger' = [purger EXCEPT !.pc = "purgeDeq"]
    /\ UNCHANGED <<Limits, ActiveSockets, CachedSockets, InPurging_, MaxConnId_,
                   SslIOStream, proc, hndl, env>>
    /\ UNCHANGED fn

\* PurgeCache: a live socket is put back at the tail, a closed one is purged
PurgeDeadCheck ==
    /\ purger.pc = "deadChk"
    /\ \E alive \in Ok :
          /\ Spend(Cost(alive))
          /\ IF alive
             THEN /\ Lst_' = [Lst_ EXCEPT ![purger.i] = QEnqueue(@, purger.res)]
                  /\ UNCHANGED <<CachedSockets, SslIOStream>>
             ELSE /\ CachedSockets' = CachedSockets - 1
                  /\ SslIOStream' = Destroy(SslIOStream, {purger.res})
                  /\ Lst_' = Lst_
    /\ purger' = [purger EXCEPT !.pc = "purgeDeq", !.res = NoSock]
    /\ UNCHANGED <<Limits, ActiveSockets, InPurging_, MaxConnId_, proc, hndl>>
    /\ UNCHANGED fn

\* a PurgeCache whose for loop does not advance i
PurgeDequeue_NoAdvance ==
    /\ purger.pc = "purgeDeq"
    /\ LET q == Lst_[purger.i] IN
       IF purger.purgeCounter # 0 /\ QSize(q) # 0
       THEN /\ Lst_' = [Lst_ EXCEPT ![purger.i] = QRest(@)]
            /\ SslIOStream' = Destroy(SslIOStream, {QHead(q)})
            /\ purger' = [purger EXCEPT !.pc = "purgeDec", !.purgeCounter = @ - 1]
       ELSE /\ purger' = [purger EXCEPT !.pc = "loop", !.purgeCounter = 0]
            /\ UNCHANGED <<Lst_, SslIOStream>>
    /\ UNCHANGED <<Limits, ActiveSockets, CachedSockets, InPurging_, MaxConnId_,
                   proc, hndl, env>>
    /\ UNCHANGED fn

\* PurgeCache: while (purgeCounter-- && tc.Dequeue(&tmp)); the socket tmp held
\* before is closed.  When the loop ends the next queue is visited
PurgeDequeue ==
    /\ purger.pc = "purgeDeq"
    /\ LET q == Lst_[purger.i] IN
       IF purger.purgeCounter # 0 /\ QSize(q) # 0
       THEN /\ Lst_' = [Lst_ EXCEPT ![purger.i] = QRest(@)]
            /\ SslIOStream' = Destroy(SslIOStream, {QHead(q)})
            /\ purger' = [purger EXCEPT !.pc = "purgeDec", !.purgeCounter = @ - 1]
       ELSE /\ purger' = [purger EXCEPT !.pc = "loop", !.i = @ + 1, !.purgeCounter = 0]
            /\ UNCHANGED <<Lst_, SslIOStream>>
    /\ UNCHANGED <<Limits, ActiveSockets, CachedSockets, InPurging_, MaxConnId_,
                   proc, hndl, env>>
    /\ UNCHANGED fn

\* OnPurgeSocket: CachedSockets.Dec()
OnPurgeSocket ==
    /\ purger.pc = "purgeDec"
    /\ CachedSockets' = CachedSockets - 1
    /\ purger' = [purger EXCEPT !.pc = "purgeDeq"]
    /\ UNCHANGED <<Limits, ActiveSockets, Lst_, InPurging_, MaxConnId_,
                   SslIOStream, proc, hndl, env>>
    /\ UNCHANGED fn

\* DoExecute: AtomicUnlock(&InPurging_) after PurgeCache, and the loop restarts
PurgerUnlock ==
    /\ purger.pc = "unlock"
    /\ InPurging_' = 0
    /\ purger' = IdlePurger
    /\ UNCHANGED <<Limits, ActiveSockets, CachedSockets, Lst_, MaxConnId_,
                   SslIOStream, proc, hndl, env>>
    /\ UNCHANGED fn

\* ------------------------------------------------------------------ system
Next ==
    \/ \E r \in Reqs : Cancel(r)
    \/ \E r \in Reqs : DoRunBegin(r)
    \/ \E r \in Reqs : DrainDequeue(r)
    \/ \E r \in Reqs : DrainDec(r)
    \/ \E r \in Reqs : DrainCheck(r)
    \/ \E r \in Reqs : ConnectWait(r)
    \/ \E r \in Reqs : RetryDec(r)
    \/ \E r \in Reqs : RetryCheck(r)
    \/ \E r \in Reqs : DoRunSend(r)
    \/ \E r \in Reqs : DoRunRecv(r)
    \/ \E p \in Procs : ReleaseCheck(p)
    \/ \E p \in Procs : ReleaseInc(p)
    \/ \E p \in Procs : ReleaseDec(p)
    \/ \E p \in Procs : ReleaseEnqueue(p)
    \/ \E p \in Procs : ReleaseSuggest(p)
    \/ \E p \in Procs : SuggestPurgeCache(p)
    \/ \E p \in Procs : ReleaseEnd(p)
    \/ \E j \in Jobs : ConnectorRun(j)
    \/ PurgerWait
    \/ PurgeStart
    \/ PurgeVisit
    \/ PurgeDeadDequeue
    \/ PurgeDeadCheck
    \/ PurgeDequeue
    \/ OnPurgeSocket
    \/ PurgerUnlock

Spec == Init /\ [][Next]_vars

\* the cache as constructed, with no request started: the state the
\* specifications of single functions leave alone
Parked ==
    /\ Limits = [Soft |-> 0, Hard |-> MaxHard]
    /\ ActiveSockets = 0
    /\ CachedSockets = 0
    /\ Lst_ = [h \in QueueIds |-> <<>>]
    /\ InPurging_ = 0
    /\ MaxConnId_ = 0
    /\ SslIOStream = [s \in SockIds |-> NoStream]
    /\ proc = [p \in Procs |-> IF p \in Reqs THEN IdleProc(1, 1) ELSE FreeJob]
    /\ hndl = [r \in Reqs |-> IdleHandle]
    /\ purger = IdlePurger
    /\ env = [events |-> 0]

cacheVars == <<Limits, ActiveSockets, CachedSockets, Lst_, InPurging_, MaxConnId_,
               SslIOStream, proc, hndl, purger, env>>

\* ------------------------------------------------------- MatchDomainName
\* the characters of host names and of the names in certificates: a letter in
\* both cases, the wildcard and the separator of labels
Alphabet == {"a", "A", "*", "."}

\* the strings of at most n characters
Strs(n) == UNION {[1..k -> Alphabet] : k \in 0..n}

\* TStringBuf::NextTok(delim): the token before the first delim and what is
\* left after it; without a delim the token is the whole string and nothing
\* is left
NextTok(s, delim) ==
    IF \E i \in 1..Len(s) : s[i] = delim
    THEN LET i == CHOOSE k \in 1..Len(s) :
                     s[k] = delim /\ \A m \in 1..(k - 1) : s[m] # delim IN
         [tok |-> SubSeq(s, 1, i - 1), rest |-> SubSeq(s, i + 1, Len(s))]
    ELSE [tok |-> s, rest |-> <<>>]

\* TString::to_lower
to_lower(s) == [i \in 1..Len(s) |-> IF s[i] = "A" THEN "a" ELSE s[i]]

\* EqualNoCase: the same length and the same lower-case string
EqualNoCase(a, b) == Len(a) = Len(b) /\ to_lower(a) = to_lower(b)

\* a MatchDomainName that takes a '*' at the head of the first label for the
\* wildcard
MatchDomainName_Partial(tmpl, name) ==
    IF tmpl # <<>> /\ tmpl[1] = "*"
    THEN EqualNoCase(NextTok(tmpl, ".").rest, NextTok(name, ".").rest)
    ELSE EqualNoCase(tmpl, name)

\* MatchDomainName: a first label "*" of the template is dropped together
\* with the first label of the name, then the two are compared
MatchDomainName(tmpl, name) ==
    LET tmplFirst == NextTok(tmpl, ".").tok
        tmplRest == NextTok(tmpl, ".").rest IN
    IF tmplFirst = <<"*">>
    THEN EqualNoCase(tmplRest, NextTok(name, ".").rest)
    ELSE EqualNoCase(tmpl, name)

MaxTmplLen == 4
MaxNameLen == 5

\* a template and a name are handed to MatchDomainName
InitMatch ==
    /\ Parked
    /\ fn \in [op : {"MatchDomainName"}, tmpl : Strs(MaxTmplLen),
               name : Strs(MaxNameLen), done : {FALSE}, ret : {FALSE}]

CallMatchDomainName ==
    /\ fn.op = "MatchDomainName"
    /\ ~fn.done
    /\ fn' = [fn EXCEPT !.done = TRUE, !.ret = MatchDomainName(fn.tmpl, fn.name)]
    /\ UNCHANGED cacheVars

NextMatch == CallMatchDomainName

SpecMatch == InitMatch /\ [][NextMatch]_vars

\* ----------------------------------------------------- CheckCertHostname
MaxAltNames == 2

\* the names certificates carry and the host names requests go to
CertNames == {<<"a", ".", "a">>, <<"*", ".", "a">>, <<"a">>}
HostNames == {<<"a", ".", "a">>, <<"A", ".", "a">>, <<"a">>}

\* the entries of a Subject-Alt-Name extension: DNS names and others
GeneralNames == [type : {"GEN_DNS", "GEN_IPADD"}, value : CertNames]

\* X509 certificates, as far as CheckCertHostname reads them: ext, the
\* Subject-Alt-Name extension is present, with the entries names; hasCN, the
\* subject has a Common Name, commonName
Certs ==
    {c \in [ext : BOOLEAN,
            names : UNION {[1..k -> GeneralNames] : k \in 0..MaxAltNames},
            hasCN : BOOLEAN, commonName : CertNames] :
        /\ ~c.ext => c.names = <<>>
        /\ ~c.hasCN => c.commonName = <<"a">>}

\* MatchCertAltNames: NO_EXTENSION without the extension, else MATCH_FOUND at
\* the first entry of type GEN_DNS that matches, else NO_MATCH
MatchCertAltNames(cert, hostname) ==
    IF ~cert.ext THEN "NO_EXTENSION"
    ELSE IF \E i \in 1..Len(cert.names) :
               /\ cert.names[i].type = "GEN_DNS"
               /\ MatchDomainName(cert.names[i].value, hostname)
    THEN "MATCH_FOUND"
    ELSE "NO_MATCH"

\* MatchCertCommonName: ERROR without a Common Name
MatchCertCommonName(cert, hostname) ==
    IF ~cert.hasCN THEN "ERROR"
    ELSE IF MatchDomainName(cert.commonName, hostname) THEN "MATCH_FOUND"
    ELSE "NO_MATCH"

\* a CheckCertHostname that turns to the Common Name whenever no entry of
\* the extension matched
CheckCertHostname_FallsBack(cert, hostname) ==
    \/ MatchCertAltNames(cert, hostname) = "MATCH_FOUND"
    \/ MatchCertCommonName(cert, hostname) = "MATCH_FOUND"

\* CheckCertHostname: the switch over MatchCertAltNames
CheckCertHostname(cert, hostname) ==
    CASE MatchCertAltNames(cert, hostname) = "MATCH_FOUND" -> TRUE
      [] MatchCertAltNames(cert, hostname) = "NO_EXTENSION" ->
            MatchCertCommonName(cert, hostname) = "MATCH_FOUND"
      [] OTHER -> FALSE

\* a certificate and a host name are handed to CheckCertHostname
InitCert ==
    /\ Parked
    /\ fn \in [op : {"CheckCertHostname"}, cert : Certs, hostname : HostNames,
               done : {FALSE}, ret : {FALSE}]

CallCheckCertHostname ==
    /\ fn.op = "CheckCertHostname"
    /\ ~fn.done
    /\ fn' = [fn EXCEPT !.done = TRUE,
                        !.ret = CheckCertHostname(fn.cert, fn.hostname)]
    /\ UNCHANGED cacheVars

NextCert == CallCheckCertHostname

SpecCert == InitCert /\ [][NextCert]_vars

\* ------------------------------------------- THttpsRequest::DoRun, in steps
\* the try block of DoRun and what follows it, statement by statement, on one
\* connection: fn holds the stream of the connection (io, Ssl_, handshakes,
\* Cont_), the cancel flag of the handle, the bytes the kernel still has to
\* send (nbytes), the timeout and the last result of PollT in
\* WaitUntilWritten, the error DoRun ends with and the log of what happened
MaxPending == 2
MaxPolls == 2
WaitFirstToutMs == 10

\* the coroutine that runs the request
Self == 1

Log(f, event) == [f EXCEPT !.log = Append(@, event)]

\* the jobs of the server that bind the bio of their stream
ServerJobs == {"TRead", "TWrite", "TFail"}

\* a client request, or a job of the server, is about to run on a stream
\* whose bio is bound to no coroutine; the bio of a server stream has no
\* cancel flag
InitRun ==
    /\ Parked
    /\ \E op \in {"DoRun"} \cup ServerJobs, ssl \in BOOLEAN, canceled \in BOOLEAN :
          /\ op \in ServerJobs => ~canceled
          /\ fn = [op |-> op, pc |-> "try", bioRet |-> 0,
                   io |-> TRUE, Ssl_ |-> ssl, handshakes |-> IF ssl THEN 1 ELSE 0,
                   Cont_ |-> NoCont, canceled |-> canceled,
                   nbytes |-> 0, tout |-> WaitFirstToutMs, polls |-> 0, readable |-> FALSE,
                   error |-> "none", log |-> <<>>]

\* an exception leaves the try block: ~TContBIOWatcher releases the bio, one
\* of the catch blocks makes the error
Caught(f, exc) ==
    \E cancelled \in BOOLEAN :
       fn' = [ReleaseCont(f) EXCEPT !.pc = "notify", !.error = CatchError(exc, cancelled)]

\* TContBIOWatcher w(*io, c); if (!io->Initialized()) io->Handshake()
RunTry ==
    /\ fn.op = "DoRun" /\ fn.pc = "try"
    /\ LET f == AcquireCont(fn, Self) IN
       IF Initialized(f)
       THEN fn' = [f EXCEPT !.pc = "send"]
       ELSE \E net \in {1, 0, -1}, checkHost \in BOOLEAN, hostOk \in BOOLEAN :
               LET rd == BIOReadMethod(f.Cont_, f.canceled, net)
                   rval == IF rd > 0 THEN 1 ELSE rd
                   hs == Handshake(rval, checkHost, hostOk) IN
               IF hs = "none"
               THEN fn' = [Log(NewSsl(f), "Handshake") EXCEPT !.pc = "send"]
               ELSE Caught(NewSsl(f), hs)
    /\ UNCHANGED cacheVars

\* RequestData().SendTo(*io): SSL_write through BIOWriteMethod; the kernel
\* keeps up to MaxPending of the bytes in its send buffer
RunSendTo ==
    /\ fn.op = "DoRun" /\ fn.pc = "send"
    /\ \E wr \in {1, -1} :
          IF BIOWriteMethod(fn.Cont_, wr) > 0
          THEN \E n \in 0..MaxPending :
                  fn' = [Log(fn, "SendTo") EXCEPT !.pc = "wait", !.nbytes = n]
          ELSE Caught(fn, "TSslException")
    /\ UNCHANGED cacheVars

\* a WaitUntilWritten that gives up waiting at the first timeout of PollT
WaitUntilWritten_ReturnsOnTimeout(cont, err, nbytes, perr) ==
    IF cont = NoCont THEN "TSslException"
    ELSE IF err # 0 THEN "TSystemError"
    ELSE IF nbytes = 0 \/ perr = 0 \/ perr = ETIMEDOUT THEN "return"
    ELSE "TSystemError"

\* TContBIO::WaitUntilWritten, one turn of its loop: err and nbytes are what
\* ioctl(FIONWRITE) gives, perr what PollT(CONT_POLL_READ) gives when it is
\* called.  "return", "again" (the timeout doubled) or the exception thrown
WaitUntilWritten(cont, err, nbytes, perr) ==
    IF cont = NoCont THEN "TSslException"
    ELSE IF err # 0 THEN "TSystemError"
    ELSE IF nbytes = 0 THEN "return"
    ELSE IF perr = 0 THEN "return"
    ELSE IF perr = ETIMEDOUT THEN "again"
    ELSE "TSystemError"

\* ProcessRecv: io.WaitUntilWritten(); between two turns the kernel may have
\* sent some of the bytes
RunWaitUntilWritten ==
    /\ fn.op = "DoRun" /\ fn.pc = "wait"
    /\ \E err \in {0, -1}, perr \in {0, ETIMEDOUT, EINTR}, sent \in 0..fn.nbytes :
          LET w == WaitUntilWritten(fn.Cont_, err, fn.nbytes, perr)
              polled == err = 0 /\ fn.nbytes # 0 IN
          /\ ~polled => perr = ETIMEDOUT
          /\ w # "again" => sent = 0
          /\ CASE w = "return" ->
                     fn' = [Log(fn, "WaitUntilWritten") EXCEPT
                               !.pc = "signal", !.readable = polled /\ perr = 0]
               [] w = "again" ->
                     /\ fn.polls < MaxPolls
                     /\ fn' = [fn EXCEPT !.tout = @ * 2, !.polls = @ + 1,
                                         !.nbytes = @ - sent]
               [] OTHER -> Caught(fn, w)
    /\ UNCHANGED cacheVars

\* a ProcessRecv that signals the handle without waiting for the bytes
RunSetSendComplete_Early ==
    /\ fn.op = "DoRun" /\ fn.pc \in {"wait", "signal"}
    /\ fn' = [Log(fn, "SetSendComplete") EXCEPT !.pc = "read"]
    /\ UNCHANGED cacheVars

\* ProcessRecv: Hndl_->SetSendComplete()
RunSetSendComplete ==
    /\ fn.op = "DoRun" /\ fn.pc = "signal"
    /\ fn' = [Log(fn, "SetSendComplete") EXCEPT !.pc = "read"]
    /\ UNCHANGED cacheVars

\* ProcessRecv: THttpInput and ReadAll through DoRead, the status; the try
\* block is left (~TContBIOWatcher)
RunRead ==
    /\ fn.op = "DoRun" /\ fn.pc = "read"
    /\ \E net \in {1, 0, -1}, shut \in BOOLEAN, code \in GoodCodes \cup BadCodes :
          LET rd == BIOReadMethod(fn.Cont_, fn.canceled, net)
              exc == DoRead(rd, shut)
              f == Log(fn, "Read") IN
          IF exc # "none"
          THEN code = 200 /\ Caught(f, exc)
          ELSE fn' = [ReleaseCont(f) EXCEPT
                         !.pc = IF ProcessRecv(code) = "none" THEN "release" ELSE "notify",
                         !.error = ProcessRecv(code)]
    /\ UNCHANGED cacheVars

\* SocketCache()->Release(*s)
RunRelease ==
    /\ fn.op = "DoRun" /\ fn.pc = "release"
    /\ fn' = [Log(fn, "Release") EXCEPT !.pc = "notify"]
    /\ UNCHANGED cacheVars

\* Hndl_->NotifyError(error, received) or Hndl_->NotifyResponse(...)
RunNotify ==
    /\ fn.op = "DoRun" /\ fn.pc = "notify"
    /\ fn' = [Log(fn, IF fn.error = "none" THEN "NotifyResponse" ELSE "NotifyError")
                 EXCEPT !.pc = "end"]
    /\ UNCHANGED cacheVars

\* TRead, TWrite, TFail: TContBIOWatcher w(*IO_, c) at the head of the try
\* block
JobTry ==
    /\ fn.op \in ServerJobs /\ fn.pc = "try"
    /\ fn' = [AcquireCont(fn, Self) EXCEPT !.pc = "body"]
    /\ UNCHANGED cacheVars

\* the try block of a job is left, by return or by an exception that
\* catch (...) swallows: ~TContBIOWatcher
JobEnd(f, event) == fn' = [ReleaseCont(Log(f, event)) EXCEPT !.pc = "end"]

\* TRead::operator(): PollReadT, on a timeout or a close of the peer
\* Close(true) (Shutdown resets Ssl_) and return; else Handshake (SSL_new and
\* SSL_accept on a stream without Ssl_), the first line through DoRead and
\* OnRequest; an exception ends in Close(false)
TReadRun ==
    /\ fn.op = "TRead" /\ fn.pc = "body"
    /\ \E poll \in {0, ETIMEDOUT}, accepted \in BOOLEAN, net \in {1, 0, -1},
          shut \in BOOLEAN :
          LET hsk == IF Initialized(fn) THEN fn ELSE NewSsl(fn)
              rd == BIOReadMethod(fn.Cont_, fn.canceled, net) IN
          IF poll # 0
          THEN /\ accepted /\ net = 1 /\ shut
               /\ JobEnd([fn EXCEPT !.Ssl_ = FALSE], "Close(true)")
          ELSE IF ~accepted
          THEN net = 1 /\ shut /\ JobEnd(hsk, "Close(false)")
          ELSE IF DoRead(rd, shut) # "none"
          THEN JobEnd(hsk, "Close(false)")
          ELSE JobEnd(hsk, "OnRequest")
    /\ UNCHANGED cacheVars

\* TWrite::DoRun: the status line, the headers and the data are written
\* through BIOWriteMethod, then the next TRead is enqueued; an exception is
\* swallowed
TWriteRun ==
    /\ fn.op = "TWrite" /\ fn.pc = "body"
    /\ \E wr \in {1, -1} :
          IF BIOWriteMethod(fn.Cont_, wr) > 0
          THEN JobEnd(fn, "Enqueue(TRead)")
          ELSE JobEnd(fn, "catch")
    /\ UNCHANGED cacheVars

\* TFail::DoRun: the 503 answer is written, then the next TRead is enqueued
TFailRun ==
    /\ fn.op = "TFail" /\ fn.pc = "body"
    /\ \E wr \in {1, -1} :
          IF BIOWriteMethod(fn.Cont_, wr) > 0
          THEN JobEnd(fn, "Enqueue(TRead)")
          ELSE JobEnd(fn, "catch")
    /\ UNCHANGED cacheVars

\* the TLS engine calls the read or the write method of the bio after the
\* request or job has ended
BioAttempt ==
    /\ fn.op \in {"DoRun"} \cup ServerJobs /\ fn.pc = "end"
    /\ \E net \in {1, 0, -1}, read \in BOOLEAN :
          fn' = [fn EXCEPT !.pc = "after",
                           !.bioRet = IF read
                                      THEN BIOReadMethod(fn.Cont_, fn.canceled, net)
                                      ELSE BIOWriteMethod(fn.Cont_, net)]
    /\ UNCHANGED cacheVars

NextRun ==
    \/ JobTry
    \/ TReadRun
    \/ TWriteRun
    \/ TFailRun
    \/ BioAttempt
    \/ RunTry
    \/ RunSendTo
    \/ RunWaitUntilWritten
    \/ RunSetSendComplete
    \/ RunRead
    \/ RunRelease
    \/ RunNotify

SpecRun == InitRun /\ [][NextRun]_vars

\* ------------------------------- TInputConnections::UnusedConnKeepaliveTimeout
MaxUnusedConnKeepaliveTimeout == 120
MinUnusedConnKeepaliveTimeout == 10
MaxCounter == 6
MaxInSoft == 3

\* an UnusedConnKeepaliveTimeout without the lower bound
UnusedConnKeepaliveTimeout_NoMin(Counter, limits, maxT, minT) ==
    LET e == ExceedLimit(Counter, limits.Soft) IN
    IF e # 0
    THEN (maxT * ExceedLimit(Delta(limits), e)) \div (Delta(limits) + 1)
    ELSE maxT

\* an UnusedConnKeepaliveTimeout that takes the soft limit off twice
UnusedConnKeepaliveTimeout_SoftTwice(Counter, limits, maxT, minT) ==
    LET e == ExceedLimit(Counter, limits.Soft) IN
    IF e # 0
    THEN LET d == Delta(limits)
             leftAvailableFd == ExceedLimit(d, e + limits.Soft)
             r == (maxT * leftAvailableFd) \div (d + 1) IN
         Max2(r, minT)
    ELSE maxT

\* TInputConnections::UnusedConnKeepaliveTimeout (seconds); the product is
\* taken in size_t and the quotient, below maxT, fits the unsigned r
UnusedConnKeepaliveTimeout(Counter, limits, maxT, minT) ==
    LET e == ExceedLimit(Counter, limits.Soft) IN
    IF e # 0
    THEN LET d == Delta(limits)
             leftAvailableFd == ExceedLimit(d, e)
             r == (maxT * leftAvailableFd) \div (d + 1) IN
         Max2(r, minT)
    ELSE maxT

\* the governor as the keep-alive computation reads it: the counter of
\* accepted sockets, the limits (soft < hard) and the bounds (min < max);
\* small values, and the values of the documented example
InitKeepalive ==
    /\ Parked
    /\ fn \in [op : {"UnusedConnKeepaliveTimeout"},
               Counter : 0..MaxCounter \cup {55, 99, 100, 101},
               Limits : {l \in [Soft : 0..MaxInSoft, Hard : 1..(MaxInSoft + 1)] :
                            l.Soft < l.Hard} \cup {[Soft |-> 10, Hard |-> 100]},
               bounds : {[min |-> 1, max |-> 2], [min |-> 2, max |-> 7],
                         [min |-> MinUnusedConnKeepaliveTimeout,
                          max |-> MaxUnusedConnKeepaliveTimeout]},
               done : {FALSE}, ret : {0}]

CallUnusedConnKeepaliveTimeout ==
    /\ fn.op = "UnusedConnKeepaliveTimeout"
    /\ ~fn.done
    /\ fn' = [fn EXCEPT !.done = TRUE,
                        !.ret = UnusedConnKeepaliveTimeout(fn.Counter, fn.Limits,
                                                           fn.bounds.max, fn.bounds.min)]
    /\ UNCHANGED cacheVars

NextKeepalive == CallUnusedConnKeepaliveTimeout

SpecKeepalive == InitKeepalive /\ [][NextKeepalive]_vars

\* ------------------------------------------------------------- the server
\* One TServer and the governor of input connections.  The executor of the
\* server runs on one thread: the accept callback and every job run from a
\* suspension point to the next as one step.  The dispatcher creates a
\* coroutine for every job it dequeues without waiting for the one before,
\* so the jobs that exist may run in any order.

\* accepted sockets in a run
MaxConns == 3

\* requests handed to the user handler in a run
MaxServed == 2

\* TWrite::DoRun: char buf[128]
HeaderBufSize == 128

ConnIds == 1..MaxConns

\* what a handler answers with: the size of the data and the size its gzip
\* form would have (empty and so larger, equal, smaller)
Bodies == {[size |-> 0, gz |-> 20], [size |-> 40, gz |-> 40], [size |-> 100, gz |-> 60]}

\* lengths of the header string a handler passes to SendReply
HeaderLens == {0, 100}

\* THttpInput::BestCompressionScheme of a request
Schemes == {"", "gzip", "deflate"}

\* IRequest::TResponseError values a handler passes to SendError
ResponseErrors == {"ServiceUnavailable", "MaxResponseError"}

\* a job object: TRead, TWrite or TFail with its members (IO_ 0 is a null
\* pointer; data is a TData, its size and whether its bytes are the gzip
\* form); JQ says it went through Enqueue (the dispatcher runs it via
\* DoRun); orig and best recall the handler's data and the request's scheme
Job(kind, io, selfRemove, jq) ==
    [job |-> kind, IO_ |-> io, SelfRemove |-> selfRemove, JQ |-> jq, done |-> FALSE,
     data |-> [size |-> 0, gzipped |-> FALSE], CompressionScheme_ |-> "", Error_ |-> "none", Headers_ |-> 0,
     orig |-> [size |-> 0, gz |-> 0], best |-> ""]

\* OnAcceptFull: new TRead(new TSslServerIOStream(SslCtx_, s), this, true)
AcceptRead_NoSelfRemove(c) == Job("TRead", c, FALSE, FALSE)

AcceptRead(c) == Job("TRead", c, TRUE, FALSE)

\* Server_->Enqueue(new TRead(IO_, Server_)) of TWrite and TFail
EnqueuedRead(c) == Job("TRead", c, FALSE, TRUE)

\* the outcome of the last callback or job that ran
NoRun == [ran |-> Job("none", 0, FALSE, FALSE), end |-> "none", wrote |-> FALSE,
          Encoding |-> "", ContentLength |-> 0, body |-> [size |-> 0, gzipped |-> FALSE], reads |-> 0,
          Counter |-> 0, tout |-> 0]

Ran(j, end, counter) == [NoRun EXCEPT !.ran = j, !.end = end, !.Counter = counter]

\* the stream of connection c is referenced by a job or by a request
Held(f, c) ==
    \/ \E i \in DOMAIN f.jobs : f.jobs[i].IO_ = c
    \/ \E i \in DOMAIN f.reqs : f.reqs[i].alive /\ f.reqs[i].IO_ = c

\* the last TIntrusivePtr to a stream went away: ~TSslServerIOStream, then
\* ~TSharedSocket, which decrements the governor's counter
Unref(f) ==
    LET gone == {c \in ConnIds : f.S[c].io = "alive" /\ ~Held(f, c)} IN
    [f EXCEPT !.S = [c \in ConnIds |-> IF c \in gone
                                       THEN [fd |-> "closed", io |-> "destroyed"]
                                       ELSE f.S[c]],
              !.Counter = f.Counter - Cardinality(gone)]

\* the end of a job's run: `delete this' of a self-removing TRead, the
\* THolder of DoRun for a job the dispatcher started
Finish(f, i) ==
    LET j == f.jobs[i] IN
    Unref([f EXCEPT !.jobs = IF j.SelfRemove \/ j.JQ
                             THEN SubSeq(f.jobs, 1, i - 1) \o SubSeq(f.jobs, i + 1, Len(f.jobs))
                             ELSE [f.jobs EXCEPT ![i].done = TRUE]])

\* TInputConnections::ExceedHardLimit
InputExceedHardLimit_Never(counter, limits) == 0

InputExceedHardLimit(counter, limits) == ExceedLimit(counter, limits.Hard)

InitServer ==
    /\ Parked
    /\ fn \in [op : {"TServer"}, Counter : {0},
               Limits : {[Soft |-> 0, Hard |-> 1], [Soft |-> 1, Hard |-> 2]},
               S : {[c \in ConnIds |-> [fd |-> "none", io |-> "none"]]},
               jobs : {<<>>}, reqs : {<<>>}, last : {NoRun}]

\* TServer::OnAcceptFull: the TSharedSocket counts itself, then the hard
\* limit is tested; a refused socket is closed and its TSharedSocket dies
\* at the return
OnAcceptFull ==
    /\ fn.op = "TServer"
    /\ \E c \in ConnIds :
        /\ fn.S[c].fd = "none"
        /\ \A b \in ConnIds : b < c => fn.S[b].fd # "none"
        /\ LET counted == fn.Counter + 1
               j == AcceptRead(c) IN
           IF InputExceedHardLimit(counted, fn.Limits) # 0
           THEN fn' = [fn EXCEPT !.S[c] = [fd |-> "closed", io |-> "none"],
                                 !.last = Ran(Job("OnAcceptFull", c, FALSE, FALSE),
                                              "refused", counted)]
           ELSE fn' = [fn EXCEPT !.S[c] = [fd |-> "open", io |-> "alive"],
                                 !.Counter = counted,
                                 !.jobs = Append(fn.jobs, j),
                                 !.last = Ran(Job("OnAcceptFull", c, FALSE, FALSE),
                                              "admitted", counted)]
    /\ UNCHANGED cacheVars

\* TRead::operator(): the idle wait (PollReadT over the governor's
\* timeout), the handshake, the parse of the request and its delivery
\*   keepalive, peer   PollReadT returned nonzero: Close(true)
\*   error             an exception of the handshake or the parse: Close(false)
\*   ctor              ReadAll threw in TPostRequest's constructor: ~TRequest
\*                     enqueued a TFail, then Close(false)
\*   request           OnRequest(new TGetRequest / TPostRequest)
TRead_operator ==
    /\ fn.op = "TServer"
    /\ \E i \in DOMAIN fn.jobs, end \in {"keepalive", "peer", "error", "ctor", "request"},
          best \in Schemes :
        LET j == fn.jobs[i]
            c == j.IO_
            tout == UnusedConnKeepaliveTimeout(fn.Counter, fn.Limits,
                                               MaxUnusedConnKeepaliveTimeout,
                                               MinUnusedConnKeepaliveTimeout)
            last == [Ran(j, end, fn.Counter) EXCEPT !.tout = tout] IN
        /\ j.job = "TRead"
        /\ ~j.done
        /\ end = "request" => Len(fn.reqs) < MaxServed
        /\ end # "request" => best = ""
        /\ fn' = Finish(
                   CASE end = "request" ->
                          [fn EXCEPT !.reqs = Append(fn.reqs,
                                         [IO_ |-> c, stream |-> c,
                                          CompressionScheme_ |-> best, alive |-> TRUE,
                                          nWrite |-> 0, nFail |-> 0]),
                                     !.last = last]
                     [] end = "ctor" ->
                          [fn EXCEPT !.S[c].fd = "closed",
                                     !.jobs = Append(fn.jobs, Job("TFail", c, FALSE, TRUE)),
                                     !.last = last]
                     [] OTHER ->
                          [fn EXCEPT !.S[c].fd = "closed", !.last = last],
                   i)
    /\ UNCHANGED cacheVars

\* Compress without the bound of the output buffer
Compress_Unbounded(scheme, body) ==
    IF scheme = "gzip"
    THEN [compressed |-> TRUE, data |-> [size |-> body.gz, gzipped |-> TRUE]]
    ELSE [compressed |-> FALSE, data |-> [size |-> body.size, gzipped |-> FALSE]]

\* TRequest::Compress: gzip into a buffer of the size of the data; the
\* output stream throws when the gzip form does not fit, and the data stays
Compress(scheme, body) ==
    IF scheme = "gzip" /\ body.gz <= body.size
    THEN [compressed |-> TRUE, data |-> [size |-> body.gz, gzipped |-> TRUE]]
    ELSE [compressed |-> FALSE, data |-> [size |-> body.size, gzipped |-> FALSE]]

\* Y_UNUSED(IO_.Release()) of SendReply and SendError
Release_IO_Keeps(r) == r

Release_IO(r) == [r EXCEPT !.IO_ = 0]

\* TRequest::SendReply(data, headers), called by the handler on a request
\* it has not answered yet
SendReply ==
    /\ fn.op = "TServer"
    /\ \E i \in DOMAIN fn.reqs, body \in Bodies, headers \in HeaderLens :
        LET r == fn.reqs[i]
            z == Compress(r.CompressionScheme_, body)
            j == [Job("TWrite", r.IO_, FALSE, TRUE) EXCEPT
                     !.data = z.data,
                     !.CompressionScheme_ = IF z.compressed THEN r.CompressionScheme_ ELSE "",
                     !.Headers_ = headers, !.orig = body,
                     !.best = r.CompressionScheme_] IN
        /\ r.alive
        /\ r.IO_ # 0
        /\ fn' = [fn EXCEPT !.jobs = Append(fn.jobs, j),
                            !.reqs[i] = Release_IO([r EXCEPT !.nWrite = r.nWrite + 1])]
    /\ UNCHANGED cacheVars

\* TRequest::SendError(error, ...)
SendError ==
    /\ fn.op = "TServer"
    /\ \E i \in DOMAIN fn.reqs, error \in ResponseErrors :
        LET r == fn.reqs[i]
            j == [Job("TWrite", r.IO_, FALSE, TRUE) EXCEPT
                     !.Error_ = error, !.best = r.CompressionScheme_] IN
        /\ r.alive
        /\ r.IO_ # 0
        /\ fn' = [fn EXCEPT !.jobs = Append(fn.jobs, j),
                            !.reqs[i] = Release_IO([r EXCEPT !.nWrite = r.nWrite + 1])]
    /\ UNCHANGED cacheVars

\* TRequest::~TRequest: the handler lets go of the request object
TRequest_dtor ==
    /\ fn.op = "TServer"
    /\ \E i \in DOMAIN fn.reqs :
        LET r == fn.reqs[i] IN
        /\ r.alive
        /\ fn' = Unref(
                   IF r.IO_ # 0
                   THEN [fn EXCEPT !.jobs = Append(fn.jobs, Job("TFail", r.IO_, FALSE, TRUE)),
                                   !.reqs[i] = [r EXCEPT !.alive = FALSE, !.IO_ = 0,
                                                         !.nFail = r.nFail + 1]]
                   ELSE [fn EXCEPT !.reqs[i] = [r EXCEPT !.alive = FALSE]])
    /\ UNCHANGED cacheVars

Digits(n) == IF n < 10 THEN 1 ELSE IF n < 100 THEN 2 ELSE 3

\* the length of HttpCodeStrEx(code): "200 Ok", "503 Service unavailable"
HttpCodeStrEx(error) == IF error = "none" THEN 6 ELSE 23

\* TWrite::DoRun: what goes into buf before the first IO_->Write
\*   "HTTP/1.1 " code "\r\n" [Content-Encoding] Connection Content-Length
\*   Headers_ "\r\n"
HeadLen(j) ==
    9 + HttpCodeStrEx(j.Error_) + 2
      + (IF j.CompressionScheme_ # "" THEN 16 + 2 + 4 + 2 ELSE 0)
      + (10 + 2 + 10 + 2)
      + (14 + 2 + Digits(j.data.size) + 2)
      + j.Headers_ + 2

\* TWrite::DoRun
\*   exception   WriteHttpCode threw (MaxResponseError) or the header did not
\*               fit into buf: caught, nothing was written
\*   ioerror     a Write of the stream threw
\*   ok          header and body written, a TRead enqueued
TWrite_DoRun ==
    /\ fn.op = "TServer"
    /\ \E i \in DOMAIN fn.jobs, net \in {"ok", "ioerror"} :
        LET j == fn.jobs[i]
            c == j.IO_
            end == IF j.Error_ = "MaxResponseError" \/ HeadLen(j) > HeaderBufSize
                   THEN "exception"
                   ELSE IF fn.S[c].fd # "open" THEN "ioerror" ELSE net
            last == Ran(j, end, fn.Counter) IN
        /\ j.job = "TWrite"
        /\ fn' = Finish(
                   IF end = "ok"
                   THEN [fn EXCEPT !.jobs = Append(fn.jobs, EnqueuedRead(c)),
                                   !.last = [last EXCEPT
                                               !.wrote = TRUE,
                                               !.Encoding = j.CompressionScheme_,
                                               !.ContentLength = j.data.size,
                                               !.body = j.data,
                                               !.reads = 1]]
                   ELSE [fn EXCEPT !.last = last],
                   i)
    /\ UNCHANGED cacheVars

\* TFail::DoRun: the fixed 503 answer with Content-Length: 0, then a TRead
TFail_DoRun ==
    /\ fn.op = "TServer"
    /\ \E i \in DOMAIN fn.jobs, net \in {"ok", "ioerror"} :
        LET j == fn.jobs[i]
            c == j.IO_
            end == IF fn.S[c].fd # "open" THEN "ioerror" ELSE net
            last == Ran(j, end, fn.Counter) IN
        /\ j.job = "TFail"
        /\ fn' = Finish(
                   IF end = "ok"
                   THEN [fn EXCEPT !.jobs = Append(fn.jobs, EnqueuedRead(c)),
                                   !.last = [last EXCEPT !.wrote = TRUE, !.reads = 1]]
                   ELSE [fn EXCEPT !.last = last],
                   i)
    /\ UNCHANGED cacheVars

NextServer ==
    \/ OnAcceptFull
    \/ TRead_operator
    \/ SendReply
    \/ SendError
    \/ TRequest_dtor
    \/ TWrite_DoRun
    \/ TFail_DoRun

SpecServer == InitServer /\ [][NextServer]_vars

\* ---------------------------------------------------------- SetFdLimits
\* The setters of the limits run on a thread of the user while the pool and
\* the governor read Limits on theirs; Limits.Soft and Limits.Hard are two
\* plain size_t fields written one after the other, each write a step.

\* limits are drawn from 0..MaxLimit
MaxLimit == 3

LimitPairs == {l \in [Soft : 0..MaxLimit, Hard : 0..MaxLimit] : l.Hard > l.Soft}

\* fn.Limits are the limits of the governor, fn.out and fn.in the setter
\* calls under way (Hard 0: none), fn.seen what a reader saw last
InitLimits ==
    /\ Parked
    /\ fn \in [op : {"SetFdLimits"}, Limits : LimitPairs,
               out : {[Soft |-> 0, Hard |-> 0]}, in : {[Soft |-> 0, Hard |-> 0]},
               seen : {[Soft |-> 0, Hard |-> 1]}]

\* SetHttpOutputConnectionsLimits(soft, hard), Y_VERIFY(hard > soft), up to
\* Limits.Soft = soft of TConnCache::SetFdLimits
SetHttpOutputConnectionsLimits ==
    /\ fn.op = "SetFdLimits"
    /\ fn.out.Hard = 0
    /\ \E l \in LimitPairs :
        /\ Limits' = [Limits EXCEPT !.Soft = l.Soft]
        /\ fn' = [fn EXCEPT !.out = l]
    /\ UNCHANGED <<ActiveSockets, CachedSockets, Lst_, InPurging_, MaxConnId_,
                   SslIOStream, proc, hndl, purger, env>>

\* TConnCache::SetFdLimits: Limits.Hard = hard
SetFdLimits_Hard ==
    /\ fn.op = "SetFdLimits"
    /\ fn.out.Hard # 0
    /\ Limits' = [Limits EXCEPT !.Hard = fn.out.Hard]
    /\ fn' = [fn EXCEPT !.out = [Soft |-> 0, Hard |-> 0]]
    /\ UNCHANGED <<ActiveSockets, CachedSockets, Lst_, InPurging_, MaxConnId_,
                   SslIOStream, proc, hndl, purger, env>>

\* SetHttpInputConnectionsLimits(soft, hard), Y_VERIFY(hard > soft), up to
\* Limits.Soft = soft of TInputConnections::SetFdLimits
SetHttpInputConnectionsLimits ==
    /\ fn.op = "SetFdLimits"
    /\ fn.in.Hard = 0
    /\ \E l \in LimitPairs :
        fn' = [fn EXCEPT !.Limits.Soft = l.Soft, !.in = l]
    /\ UNCHANGED cacheVars

\* TInputConnections::SetFdLimits: Limits.Hard = hard
InputSetFdLimits_Hard ==
    /\ fn.op = "SetFdLimits"
    /\ fn.in.Hard # 0
    /\ fn' = [fn EXCEPT !.Limits.Hard = fn.in.Hard, !.in = [Soft |-> 0, Hard |-> 0]]
    /\ UNCHANGED cacheVars

\* a reader on another thread: ExceedSoftLimit, ExceedHardLimit and Delta of
\* the pool (acquire, release, the purge gating), or the keep-alive
\* computation of the governor
ReadLimits ==
    /\ fn.op = "SetFdLimits"
    /\ \E l \in {Limits, fn.Limits} :
        /\ l # fn.seen
        /\ fn' = [fn EXCEPT !.seen = l]
    /\ UNCHANGED cacheVars

NextLimits ==
    \/ SetHttpOutputConnectionsLimits
    \/ SetFdLimits_Hard
    \/ SetHttpInputConnectionsLimits
    \/ InputSetFdLimits_Hard
    \/ ReadLimits

SpecLimits == InitLimits /\ [][NextLimits]_vars

\* -------------------------------------------- BIOReadMethod, poll by poll
\* The reads of one request on a connection whose bio has the handle's
\* cancellation flag attached: the handshake reads, then the reads of the
\* response.  The flag is set by a thread of the user at any moment.

\* reads of the bio in a run
MaxReads == 3

\* TContBIO::TContBIO: Timeout_(TDuration::MicroSeconds(10000))
FirstTimeoutUs == 10000

\* BIOReadMethod: Min<ui64>(1000000, ...)
MaxTimeoutUs == 1000000

\* BIOReadMethod: the timeout after a poll that timed out
NextTimeout_NoCap(t) == t + (t \div 2)

NextTimeout(t) == Min2(MaxTimeoutUs, t + (t \div 2))

\* pc: check (the head of the loop), ReadT (in the poll), return (the read
\* returned ret), end (the request is over).  setAt and setIn recall where
\* and in which read the flag was set, polls the polls that timed out since
InitBioRead ==
    /\ Parked
    /\ fn \in [op : {"BIOReadMethod"}, pc : {"check"}, during : {"handshake", "response"},
               canceled : {FALSE}, Timeout_ : {FirstTimeoutUs}, ret : {0},
               reads : {1}, setAt : {"none"}, setIn : {0}, polls : {0},
               errType : {"none"}, nResponse : {0}, pooled : {FALSE}]

\* THandle::Cancel on the user's thread while a read is under way
CancelPending ==
    /\ fn.op = "BIOReadMethod"
    /\ fn.pc \in {"check", "ReadT"}
    /\ ~fn.canceled
    /\ fn' = [fn EXCEPT !.canceled = TRUE, !.setAt = fn.pc, !.setIn = fn.reads]
    /\ UNCHANGED cacheVars

\* BIOReadMethod: if (*canceled) return SSL_RVAL_TIMEOUT
BioCheck ==
    /\ fn.op = "BIOReadMethod"
    /\ fn.pc = "check"
    /\ fn' = IF BIOReadMethod(Self, fn.canceled, 1) = SSL_RVAL_TIMEOUT
             THEN [fn EXCEPT !.pc = "return", !.ret = SSL_RVAL_TIMEOUT]
             ELSE [fn EXCEPT !.pc = "ReadT"]
    /\ UNCHANGED cacheVars

\* BIOReadMethod: c->ReadT(fd, buf, len, conn->Timeout_) gives ETIMEDOUT
\* (the timeout grows and the loop goes on) or bytes, 0 or an error
BioReadT ==
    /\ fn.op = "BIOReadMethod"
    /\ fn.pc = "ReadT"
    /\ \E net \in {ETIMEDOUT, 5, 0, -1} :
        fn' = IF net = ETIMEDOUT
              THEN [fn EXCEPT !.pc = "check", !.Timeout_ = NextTimeout(fn.Timeout_),
                              !.polls = IF fn.canceled THEN fn.polls + 1 ELSE fn.polls]
              ELSE [fn EXCEPT !.pc = "return", !.ret = net]
    /\ UNCHANGED cacheVars

\* what DoRun makes of the read: Handshake or DoRead throw for a failed
\* read and the catch blocks notify the error; after bytes the request
\* reads on, or the response is complete, NotifyResponse is called and the
\* connection goes back to the cache
RunAfterRead ==
    /\ fn.op = "BIOReadMethod"
    /\ fn.pc = "return"
    /\ LET exc == IF fn.during = "handshake"
                  THEN Handshake(IF fn.ret > 0 THEN 1 ELSE fn.ret, FALSE, TRUE)
                  ELSE DoRead(fn.ret, TRUE) IN
       IF exc # "none"
       THEN fn' = [fn EXCEPT !.pc = "end", !.errType = CatchError(exc, FALSE)]
       ELSE \/ /\ fn.reads < MaxReads
               /\ fn.ret > 0
               /\ \E d \in {fn.during, "response"} :
                    fn' = [fn EXCEPT !.pc = "check", !.during = d, !.reads = fn.reads + 1]
            \/ /\ fn.during = "response"
               /\ fn' = [fn EXCEPT !.pc = "end", !.nResponse = 1, !.pooled = TRUE]
    /\ UNCHANGED cacheVars

NextBioRead ==
    \/ CancelPending
    \/ BioCheck
    \/ BioReadT
    \/ RunAfterRead

SpecBioRead == InitBioRead /\ [][NextBioRead]_vars

\* --------------------------------------------- PurgeCache, queue by queue
\* What one PurgeCache run takes from one queue, with no Connect or Release
\* at work on the queue during the run.

\* sizes of a queue, and values of the excess over the soft limit and of
\* CachedSockets at the start of a run
MaxQueue == 6

\* PurgeCache, the body of the loop for a queue of qsize sockets: the
\* sockets it closes; dead says that the peer closed the oldest socket
PurgeQueue(qsize, frac256, dead) ==
    LET purgeCounter == PurgeCounter(qsize, frac256) IN
    IF purgeCounter = 0 /\ qsize # 0
    THEN IF qsize <= 2
         THEN IF dead THEN 1 ELSE 0
         ELSE 1
    ELSE Min2(purgeCounter, qsize)

InitPurge ==
    /\ Parked
    /\ fn \in [op : {"PurgeCache"}, qsize : 0..MaxQueue, excess : 0..MaxQueue,
               cached : 0..MaxQueue, dead : BOOLEAN, done : {FALSE},
               frac256 : {0}, removed : {0}]

CallPurgeCache ==
    /\ fn.op = "PurgeCache"
    /\ ~fn.done
    /\ LET frac256 == Frac256Of(fn.excess, fn.cached) IN
       fn' = [fn EXCEPT !.done = TRUE, !.frac256 = frac256,
                        !.removed = PurgeQueue(fn.qsize, frac256, fn.dead)]
    /\ UNCHANGED cacheVars

NextPurge == CallPurgeCache

SpecPurge == InitPurge /\ [][NextPurge]_vars

\* ------------------------------------- Release's call of SuggestPurgeCache
\* The end of Release, from the test of CachedSockets and the soft limit to
\* the return of SuggestPurgeCache, on the counters a release can find
\* (small and large caches, near and far limits), with the purger inside
\* WaitI or not.

\* the counters and host ids are drawn from 0..MaxGate and a few large values
MaxGate == 3

InitSuggest ==
    /\ Parked
    /\ fn \in [op : {"SuggestPurgeCache"},
               ActiveSockets : 0..MaxGate \cup {10},
               CachedSockets : 0..MaxGate \cup {70},
               MaxConnId_ : {0, 2, 32, 2000},
               Limits : {[Soft |-> 0, Hard |-> 2], [Soft |-> 1, Hard |-> 2],
                         [Soft |-> 0, Hard |-> 100], [Soft |-> 10, Hard |-> 100]},
               InPurging_ : {0, 1}, waits : BOOLEAN,
               done : {FALSE}, found : {0}, signal : {FALSE}, purge : {FALSE}]

\* Release: if (CachedSockets.Val() && ExceedSoftLimit()) SuggestPurgeCache();
\* SuggestPurgeCache: AtomicTryLock, the two tests, Signal or AtomicUnlock.
\* purge: a purger inside WaitI was woken, PurgeCache will run
CallSuggestPurgeCache ==
    /\ fn.op = "SuggestPurgeCache"
    /\ ~fn.done
    /\ LET suggest == fn.CachedSockets # 0
                        /\ ExceedLimit(fn.ActiveSockets + fn.CachedSockets, fn.Limits.Soft) # 0
           locked == suggest /\ fn.InPurging_ = 0
           useful == PurgeUsefulOf(fn.ActiveSockets, fn.CachedSockets, fn.MaxConnId_,
                                   fn.Limits) IN
       fn' = [fn EXCEPT !.done = TRUE,
                        !.found = fn.InPurging_,
                        !.signal = locked /\ useful,
                        !.purge = locked /\ useful /\ fn.waits,
                        !.InPurging_ = IF locked /\ useful THEN 1 ELSE fn.InPurging_]
    /\ UNCHANGED cacheVars

NextSuggest == CallSuggestPurgeCache

SpecSuggest == InitSuggest /\ [][NextSuggest]_vars

\* ---------------------------------------- Release: the raise of MaxConnId_
\* Releases on several threads at once, each for a connection of its host:
\* the loop that raises MaxConnId_ to the id of the host, one access to
\* MaxConnId_ a step, then the Enqueue into the queue of the host.

\* threads inside Release at once, and the largest host id
MaxReleasers == 3

\* AtomicCas(&MaxConnId_, val, cmp) as a plain store
AtomicCas_Store(cur, val, cmp) == val

\* AtomicCas(&MaxConnId_, val, cmp): the value of MaxConnId_ after it
AtomicCas(cur, val, cmp) == IF cur = cmp THEN val ELSE cur

\* fn.t[k]: the thread k, the id of its host and its local maxConnId;
\* fn.Lst: the ids of the hosts whose queue got a connection
InitCas ==
    /\ Parked
    /\ fn \in [op : {"Release"}, MaxConnId_ : {0}, Lst : {{}},
               t : [1..MaxReleasers -> [pc : {"read"}, Id : 0..MaxReleasers,
                                        maxConnId : {0}]]]

\* size_t maxConnId = MaxConnId_ (and maxConnId = MaxConnId_ at the end of
\* the loop body), then the test maxConnId < conn.Host->Id
CasRead ==
    /\ fn.op = "Release"
    /\ \E k \in 1..MaxReleasers :
        /\ fn.t[k].pc = "read"
        /\ fn' = [fn EXCEPT !.t[k].maxConnId = fn.MaxConnId_,
                            !.t[k].pc = IF fn.MaxConnId_ < fn.t[k].Id THEN "cas" ELSE "enq"]
    /\ UNCHANGED cacheVars

\* AtomicCas(&MaxConnId_, conn.Host->Id, maxConnId)
CasSwap ==
    /\ fn.op = "Release"
    /\ \E k \in 1..MaxReleasers :
        /\ fn.t[k].pc = "cas"
        /\ fn' = [fn EXCEPT !.MaxConnId_ = AtomicCas(fn.MaxConnId_, fn.t[k].Id,
                                                     fn.t[k].maxConnId),
                            !.t[k].pc = "read"]
    /\ UNCHANGED cacheVars

\* ConnList(conn.Host).Enqueue(conn.Socket)
CasEnqueue ==
    /\ fn.op = "Release"
    /\ \E k \in 1..MaxReleasers :
        /\ fn.t[k].pc = "enq"
        /\ fn' = [fn EXCEPT !.Lst = fn.Lst \cup {fn.t[k].Id}, !.t[k].pc = "done"]
    /\ UNCHANGED cacheVars

NextCas ==
    \/ CasRead
    \/ CasSwap
    \/ CasEnqueue

SpecCas == InitCas /\ [][NextCas]_vars

\* ------------------------------------------- Connect: the fresh-connect waits
\* the number of ConnectD/PollD results the network may still withhold
MaxWaits == 13

\* two requests for one host on one executor, not yet run; the network may
\* time out or interrupt every wait of a whole fresh connect
InitConnect ==
    /\ Limits = [Soft |-> 1, Hard |-> MaxHard]
    /\ ActiveSockets = 0
    /\ CachedSockets = 0
    /\ Lst_ = [h \in QueueIds |-> <<>>]
    /\ InPurging_ = 0
    /\ MaxConnId_ = 0
    /\ SslIOStream = [s \in SockIds |-> NoStream]
    /\ proc = [p \in Procs |-> IF p \in Reqs THEN IdleProc(1, 1) ELSE FreeJob]
    /\ hndl = [r \in Reqs |-> IdleHandle]
    /\ purger = IdlePurger
    /\ env = [events |-> MaxWaits]
    /\ fn = [op |-> "Connect"]

\* Connect of every request and the connectors it starts, up to the return
\* of Connect
NextConnect ==
    \/ \E r \in Reqs : DoRunBegin(r)
    \/ \E r \in Reqs : DrainDequeue(r)
    \/ \E r \in Reqs : DrainDec(r)
    \/ \E r \in Reqs : DrainCheck(r)
    \/ \E r \in Reqs : ConnectWait(r)
    \/ \E r \in Reqs : RetryDec(r)
    \/ \E r \in Reqs : RetryCheck(r)
    \/ \E j \in Jobs : ConnectorRun(j)
    \/ \E j \in Jobs : ReleaseCheck(j)
    \/ \E j \in Jobs : ReleaseInc(j)
    \/ \E j \in Jobs : ReleaseDec(j)
    \/ \E j \in Jobs : ReleaseEnqueue(j)
    \/ \E j \in Jobs : ReleaseSuggest(j)
    \/ \E j \in Jobs : SuggestPurgeCache(j)
    \/ \E j \in Jobs : ReleaseEnd(j)

SpecConnect == InitConnect /\ [][NextConnect]_vars

\* --------------------------------------------------- TServer: the dispatcher
\* the jobs (TWrite, TFail) the request handlers may hand to Enqueue
MaxJobs == 3

\* nullptr in the jobs queue
NullJob == 0

\* TServer(): the jobs queue is empty, the dispatcher coroutine and the
\* executor thread are created.  pc is the place of the dispatcher, dtor that
\* of ~TServer; next numbers the jobs in the order of their Enqueue; started
\* and deleted recall what became of the jobs that were dequeued
InitDispatcher ==
    /\ Parked
    /\ fn = [op |-> "RunDispatcher", JQ_ |-> <<>>, next |-> 1, pc |-> "Dequeue",
             dtor |-> "none", started |-> <<>>, deleted |-> {}]

\* TServer::Enqueue(j) on the thread of a request handler
Server_Enqueue ==
    /\ fn.op = "RunDispatcher"
    /\ fn.dtor # "joined"
    /\ fn.next <= MaxJobs
    /\ fn' = [fn EXCEPT !.JQ_ = QEnqueue(@, fn.next), !.next = @ + 1]
    /\ UNCHANGED cacheVars

\* ~TServer: JQ_->Enqueue(nullptr), then Thrs_[i]->Join() is entered
Server_dtor ==
    /\ fn.op = "RunDispatcher"
    /\ fn.dtor = "none"
    /\ fn' = [fn EXCEPT !.JQ_ = QEnqueue(@, NullJob), !.dtor = "Join"]
    /\ UNCHANGED cacheVars

\* a dispatcher that takes a null job for one more job to skip
RunDispatcher_NoStop ==
    /\ fn.op = "RunDispatcher"
    /\ fn.pc = "Dequeue"
    /\ QSize(fn.JQ_) # 0
    /\ LET job == QHead(fn.JQ_) IN
       IF job = NullJob
       THEN fn' = [fn EXCEPT !.JQ_ = QRest(@)]
       ELSE \E created \in BOOLEAN :
               fn' = IF created
                     THEN [fn EXCEPT !.JQ_ = QRest(@), !.started = Append(@, job)]
                     ELSE [fn EXCEPT !.JQ_ = QRest(@), !.deleted = @ \cup {job}]
    /\ UNCHANGED cacheVars

\* RunDispatcher: one turn of the loop.  Dequeue(c) waits for an entry; a job
\* gets its coroutine, or Create throws and the TAutoPtr deletes the job; on a
\* null job the loop is left, nullptr is enqueued again and the executor is
\* aborted
RunDispatcher ==
    /\ fn.op = "RunDispatcher"
    /\ fn.pc = "Dequeue"
    /\ QSize(fn.JQ_) # 0
    /\ LET job == QHead(fn.JQ_) IN
       IF job = NullJob
       THEN fn' = [fn EXCEPT !.JQ_ = QEnqueue(QRest(@), NullJob), !.pc = "Abort"]
       ELSE \E created \in BOOLEAN :
               fn' = IF created
                     THEN [fn EXCEPT !.JQ_ = QRest(@), !.started = Append(@, job)]
                     ELSE [fn EXCEPT !.JQ_ = QRest(@), !.deleted = @ \cup {job}]
    /\ UNCHANGED cacheVars

\* TServer::Run: E_.Execute() returns once the executor was aborted, and the
\* thread ends
Run_Returns ==
    /\ fn.op = "RunDispatcher"
    /\ fn.pc = "Abort"
    /\ fn' = [fn EXCEPT !.pc = "ended"]
    /\ UNCHANGED cacheVars

\* ~TServer: Join() returns when the thread has ended
Server_Joined ==
    /\ fn.op = "RunDispatcher"
    /\ fn.dtor = "Join"
    /\ fn.pc = "ended"
    /\ fn' = [fn EXCEPT !.dtor = "joined"]
    /\ UNCHANGED cacheVars

NextDispatcher ==
    \/ Server_Enqueue
    \/ Server_dtor
    \/ RunDispatcher
    \/ Run_Returns
    \/ Server_Joined

\* the executor thread runs its coroutines, and a Join is not delayed forever
SpecDispatcher ==
    /\ InitDispatcher
    /\ [][NextDispatcher]_vars
    /\ WF_vars(RunDispatcher)
    /\ WF_vars(Run_Returns)
    /\ WF_vars(Server_Joined)

\* ----------------------------------------------- PurgeCache: a whole run
\* the largest queue and the largest excess over the soft limit of a run
MaxRunQueue == 4

RECURSIVE SumUpTo(_, _)
SumUpTo(f, n) == IF n < 0 THEN 0 ELSE f[n] + SumUpTo(f, n - 1)

\* a quiescent cache before a run: the sizes of the queues, MaxConnId_ at
\* least the index of every queue in use, CachedSockets their sum; the excess
\* over the soft limit depends on ActiveSockets and Limits.Soft as well; dead
\* says whether the peers have closed the oldest sockets
InitPurgeRun ==
    /\ Parked
    /\ fn \in {f \in [op : {"PurgeCacheRun"}, qsize : [QueueIds -> 0..MaxRunQueue],
                      MaxConnId_ : QueueIds, excess : 0..(2 * MaxRunQueue),
                      dead : BOOLEAN, done : {FALSE}, frac256 : {0},
                      removed : {[i \in QueueIds |-> 0]}] :
                 \A i \in QueueIds : f.qsize[i] # 0 => i <= f.MaxConnId_}

\* PurgeCache with no Connect or Release beside it and no shutdown
CallPurgeCacheRun ==
    /\ fn.op = "PurgeCacheRun"
    /\ ~fn.done
    /\ LET frac256 == Frac256Of(fn.excess, SumUpTo(fn.qsize, MaxHostId)) IN
       fn' = [fn EXCEPT !.done = TRUE, !.frac256 = frac256,
                        !.removed = [i \in QueueIds |->
                                        IF i < fn.MaxConnId_
                                        THEN PurgeQueue(fn.qsize[i], frac256, fn.dead)
                                        ELSE 0]]
    /\ UNCHANGED cacheVars

NextPurgeRun == CallPurgeCacheRun

SpecPurgeRun == InitPurgeRun /\ [][NextPurgeRun]_vars

\* ------------------------------------------------------- CalcScoresForLeaf
\* the largest bucketCount and the largest value of a bucket's statistic
MaxBuckets == 4
MaxStat == 2

\* TBucketStats is taken as one exact number: Add is +, Remove is -.
\* a call updateSplitScore(trueStats, falseStats, splitIdx)
Call(trueStats, falseStats, splitIdx) ==
    [trueStats |-> trueStats, falseStats |-> falseStats, idx |-> splitIdx]

\* GetValueBitCount(value): the number of bits of value, for value > 0
RECURSIVE GetValueBitCount(_)
GetValueBitCount(value) ==
    IF value <= 1 THEN 1 ELSE 1 + GetValueBitCount(value \div 2)

\* the loop for (bucketIdx = from; bucketIdx < to; ++bucketIdx)
\* stats.Add(getBucketStats(bucketIdx)), begun with acc
RECURSIVE AddBuckets(_, _, _, _)
AddBuckets(getBucketStats, from, to, acc) ==
    IF from >= to THEN acc
    ELSE AddBuckets(getBucketStats, from + 1, to, acc + getBucketStats[from])

\* OneFeature, OnlineCtr or FloatFeature: the loop over splitIdx
RECURSIVE FloatSplits(_, _, _, _, _)
FloatSplits(getBucketStats, bucketCount, splitIdx, trueStats, falseStats) ==
    IF splitIdx >= bucketCount - 1 THEN <<>>
    ELSE LET f == falseStats + getBucketStats[splitIdx]
             t == trueStats - getBucketStats[splitIdx] IN
         <<Call(t, f, splitIdx)>>
            \o FloatSplits(getBucketStats, bucketCount, splitIdx + 1, t, f)

\* a one-hot loop that does not add trueStats back to falseStats
RECURSIVE OneHotSplits_NoAddBack(_, _, _, _)
OneHotSplits_NoAddBack(getBucketStats, bucketCount, bucketIdx, falseStats) ==
    IF bucketIdx >= bucketCount THEN <<>>
    ELSE LET trueStats == getBucketStats[bucketIdx]
             f == falseStats - trueStats IN
         <<Call(trueStats, f, bucketIdx)>>
            \o OneHotSplits_NoAddBack(getBucketStats, bucketCount, bucketIdx + 1, f)

\* OneFeature, OneHotFeature: the loop over bucketIdx
RECURSIVE OneHotSplits(_, _, _, _)
OneHotSplits(getBucketStats, bucketCount, bucketIdx, falseStats) ==
    IF bucketIdx >= bucketCount THEN <<>>
    ELSE LET trueStats == getBucketStats[bucketIdx]
             f == falseStats - trueStats IN
         <<Call(trueStats, f, bucketIdx)>>
            \o OneHotSplits(getBucketStats, bucketCount, bucketIdx + 1, f + trueStats)

\* BinarySplits: the inner loop, (bucketIdx >> binFeatureIdx) & 1 chooses
\* trueStats or falseStats; the result is <<trueStats, falseStats>>
RECURSIVE BinaryStats(_, _, _, _, _, _)
BinaryStats(getBucketStats, bucketCount, binFeatureIdx, bucketIdx, trueStats, falseStats) ==
    IF bucketIdx >= bucketCount THEN <<trueStats, falseStats>>
    ELSE IF (bucketIdx \div 2 ^ binFeatureIdx) % 2 = 1
    THEN BinaryStats(getBucketStats, bucketCount, binFeatureIdx, bucketIdx + 1,
                     trueStats + getBucketStats[bucketIdx], falseStats)
    ELSE BinaryStats(getBucketStats, bucketCount, binFeatureIdx, bucketIdx + 1,
                     trueStats, falseStats + getBucketStats[bucketIdx])

\* BinarySplits: the loop over binFeatureIdx
RECURSIVE BinarySplits(_, _, _, _)
BinarySplits(getBucketStats, bucketCount, binaryFeaturesCount, binFeatureIdx) ==
    IF binFeatureIdx >= binaryFeaturesCount THEN <<>>
    ELSE LET s == BinaryStats(getBucketStats, bucketCount, binFeatureIdx, 0, 0, 0) IN
         <<Call(s[1], s[2], binFeatureIdx)>>
            \o BinarySplits(getBucketStats, bucketCount, binaryFeaturesCount,
                            binFeatureIdx + 1)

\* ExclusiveBundle, a Float part: the loop over splitIdx
RECURSIVE BundleFloatSplits(_, _, _, _, _, _)
BundleFloatSplits(getBucketStats, binBounds, binsBegin, splitIdx, trueStats, falseStats) ==
    IF splitIdx >= binBounds.End - binBounds.Begin THEN <<>>
    ELSE LET statsPart == IF splitIdx # 0
                          THEN getBucketStats[binBounds.Begin + splitIdx - 1] ELSE 0
             f == falseStats + statsPart
             t == trueStats - statsPart IN
         <<Call(t, f, binsBegin + splitIdx)>>
            \o BundleFloatSplits(getBucketStats, binBounds, binsBegin, splitIdx + 1, t, f)

\* ExclusiveBundle, a Categorical part: the split on the whole part (if it
\* has more than one bin), then the loop over binIdx
BundleOneHotSplits(getBucketStats, binBounds, binsBegin, allStats, bundlePartStats) ==
    (IF binBounds.End - binBounds.Begin > 1
     THEN <<Call(allStats - bundlePartStats, bundlePartStats, binsBegin)>>
     ELSE <<>>)
    \o [binIdx1 \in 1..(binBounds.End - binBounds.Begin) |->
          LET statsPart == getBucketStats[binBounds.Begin + binIdx1 - 1] IN
          Call(statsPart, allStats - statsPart, binsBegin + binIdx1)]

\* ExclusiveBundle: the statistics of a part, the sum of its buckets
BundlePartStats(getBucketStats, part) ==
    AddBuckets(getBucketStats, part.Bounds.Begin, part.Bounds.End, 0)

\* ExclusiveBundle: the first loop over the parts, begun with the last bucket
RECURSIVE BundleAllStats(_, _, _, _)
BundleAllStats(getBucketStats, Parts, bundlePartIdx, allStats) ==
    IF bundlePartIdx > Len(Parts) THEN allStats
    ELSE BundleAllStats(getBucketStats, Parts, bundlePartIdx + 1,
                        allStats + BundlePartStats(getBucketStats, Parts[bundlePartIdx]))

\* ExclusiveBundle: the second loop over the parts; use is the value of
\* UseForCalcScores for the part
RECURSIVE BundleSplits(_, _, _, _, _)
BundleSplits(getBucketStats, Parts, bundlePartIdx, binsBegin, allStats) ==
    IF bundlePartIdx > Len(Parts) THEN <<>>
    ELSE LET bundlePart == Parts[bundlePartIdx]
             binBounds == bundlePart.Bounds
             size == binBounds.End - binBounds.Begin
             partStats == BundlePartStats(getBucketStats, bundlePart) IN
         IF ~bundlePart.use
         THEN BundleSplits(getBucketStats, Parts, bundlePartIdx + 1, binsBegin, allStats)
         ELSE IF bundlePart.FeatureType = "Float"
         THEN BundleFloatSplits(getBucketStats, binBounds, binsBegin, 0, partStats,
                                allStats - partStats)
                 \o BundleSplits(getBucketStats, Parts, bundlePartIdx + 1,
                                 binsBegin + size, allStats)
         ELSE BundleOneHotSplits(getBucketStats, binBounds, binsBegin, allStats, partStats)
                 \o BundleSplits(getBucketStats, Parts, bundlePartIdx + 1,
                                 binsBegin + size + 1, allStats)

\* CalcScoresForLeaf: the calls of updateSplitScore, in their order
CalcScoresForLeaf(Type, OneSplitType, Parts, bucketCount, getBucketStats) ==
    IF Type = "OneFeature"
    THEN LET allStats == AddBuckets(getBucketStats, 0, bucketCount, 0) IN
         IF OneSplitType \in {"OnlineCtr", "FloatFeature"}
         THEN FloatSplits(getBucketStats, bucketCount, 0, allStats, 0)
         ELSE OneHotSplits(getBucketStats, bucketCount, 0, allStats)
    ELSE IF Type = "BinarySplits"
    THEN BinarySplits(getBucketStats, bucketCount, GetValueBitCount(bucketCount - 1), 0)
    ELSE BundleSplits(getBucketStats, Parts, 1, 0,
                      BundleAllStats(getBucketStats, Parts, 1,
                                     getBucketStats[bucketCount - 1]))

\* the sequences of part sizes that fill m buckets
RECURSIVE PartSizes(_)
PartSizes(m) ==
    IF m = 0 THEN {<<>>}
    ELSE UNION {{<<k>> \o c : c \in PartSizes(m - k)} : k \in 1..m}

\* the exclusive bundles of bucketCount buckets: the parts follow one another
\* from bucket 0 up to the last bucket, which belongs to no part
Bundles(bucketCount) ==
    {[p \in 1..Len(sz) |->
         [Bounds |-> [Begin |-> AddBuckets([i \in 0..Len(sz) |-> IF i = 0 THEN 0 ELSE sz[i]],
                                           0, p, 0),
                      End |-> AddBuckets([i \in 0..Len(sz) |-> IF i = 0 THEN 0 ELSE sz[i]],
                                         0, p + 1, 0)],
          FeatureType |-> ft[p], use |-> use[p]]] :
       sz \in PartSizes(bucketCount - 1),
       ft \in [1..(bucketCount - 1) -> {"Float", "Categorical"}],
       use \in [1..(bucketCount - 1) -> BOOLEAN]}

\* the split ensembles: <<Type, OneSplitType>>
SplitEnsembles ==
    {<<"OneFeature", "FloatFeature">>, <<"OneFeature", "OnlineCtr">>,
     <<"OneFeature", "OneHotFeature">>, <<"BinarySplits", "none">>,
     <<"ExclusiveBundle", "none">>}

\* a leaf of bucketCount buckets with their statistics and a split ensemble
InitLeaf ==
    /\ Parked
    /\ \E bucketCount \in 1..MaxBuckets, e \in SplitEnsembles :
          \E getBucketStats \in [0..(bucketCount - 1) -> 0..MaxStat],
             Parts \in (IF e[1] = "ExclusiveBundle" THEN Bundles(bucketCount) ELSE {<<>>}) :
             /\ e[1] = "BinarySplits" => bucketCount >= 2
             /\ fn = [op |-> "CalcScoresForLeaf", Type |-> e[1], OneSplitType |-> e[2],
                      Parts |-> Parts, bucketCount |-> bucketCount,
                      getBucketStats |-> getBucketStats, done |-> FALSE, calls |-> <<>>]

CallCalcScoresForLeaf ==
    /\ fn.op = "CalcScoresForLeaf"
    /\ ~fn.done
    /\ fn' = [fn EXCEPT !.done = TRUE,
                        !.calls = CalcScoresForLeaf(fn.Type, fn.OneSplitType, fn.Parts,
                                                    fn.bucketCount, fn.getBucketStats)]
    /\ UNCHANGED cacheVars

NextLeaf == CallCalcScoresForLeaf

SpecLeaf == InitLeaf /\ [][NextLeaf]_vars

\* ------------------------------------------------------------ vocabulary
RECURSIVE QueuedUpTo(_)
QueuedUpTo(h) == IF h < 0 THEN 0 ELSE QSize(Lst_[h]) + QueuedUpTo(h - 1)

\* the number of sockets in the queues of the cache
Queued == QueuedUpTo(MaxHostId)

InQueue(s, h) == \E k \in 1..Len(Lst_[h]) : Lst_[h][k] = s

\* the number of places that hold the socket s
Holders(s) ==
    Cardinality({<<h, k>> \in QueueIds \X (1..Cardinality(SockIds)) :
                    k <= Len(Lst_[h]) /\ Lst_[h][k] = s})
    + Cardinality({p \in Procs : proc[p].res = s})
    + Cardinality({p \in Procs : proc[p].res2 = s})
    + Cardinality({p \in Procs : proc[p].conn = s})
    + (IF purger.res = s THEN 1 ELSE 0)

\* the pcs of Release
ReleasePcs == {"relChk", "relInc", "relDec", "relEnq", "relSug", "sugGate", "relEnd"}

\* no Connect, Release, connector job or purge is under way
Quiescent ==
    /\ \A r \in Reqs : proc[r].pc \in {"idle", "tls", "recv", "done"}
    /\ \A j \in Jobs : proc[j].pc = "free"
    /\ purger.pc \in {"idle", "wait"}

\* the operations that are between their access to a queue and their access
\* to CachedSockets
InFlight ==
    Cardinality({p \in Procs : proc[p].pc \in {"drainDec", "retryDec", "relDec", "relEnq"}})
    + (IF purger.pc \in {"deadChk", "purgeDec"} THEN 1 ELSE 0)

\* request r takes the step that enters Connect (it was not cancelled before)
EntersConnect(r) ==
    /\ proc[r].pc = "idle"
    /\ proc'[r].pc # "idle"
    /\ hndl'[r].errType # "Cancelled"

\* ------------------------------------------------------------------- C1
\* C1: at every quiescent point ActiveSockets + CachedSockets <= hard.
\* The code admits a Connect when the total equals the hard limit, and tests
\* the limit only at entry.
C1_HardLimitRespected == Quiescent => ActiveSockets + CachedSockets <= Limits.Hard

\* ------------------------------------------------------------------- C2
\* C2: a pooled socket has at most one owner: it is never in two connections,
\* never both held and queued, never twice in the queues; and a connection is
\* held only by a request that Connect returned it to, or by the connector
\* that is releasing it.
C2_SingleOwner ==
    /\ \A s \in SockIds : Holders(s) <= 1
    /\ \A r \in Reqs : proc[r].conn # NoSock => proc[r].pc \in {"tls", "recv"} \cup ReleasePcs
    /\ \A j \in Jobs : proc[j].conn # NoSock => proc[j].pc \in ReleasePcs

\* a request works on a socket that another coroutine made and released
C2_Witness ==
    \E r \in Reqs : /\ proc[r].reused
                    /\ proc[r].conn \notin {NoSock, OwnSock(r)}
                    /\ \E h \in Hosts : Len(Lst_[h]) > 0

C4_CancelledWhenFlagSet ==
    \A r \in Reqs :
       proc[r].pc = "done" /\ hndl[r].canceled =>
          hndl[r].nError = 1 /\ hndl[r].errType = "Cancelled" /\ hndl[r].nResponse = 0

\* request r reads from the socket in its next step: the handshake of a
\* connection whose engine is not initialized, or the response
ReadsNext(r) ==
    \/ proc[r].pc = "tls" /\ ~Initialized(SslIOStream[proc[r].conn])
    \/ proc[r].pc = "recv"

\* C4: a request that finds its cancel flag set when it reads from the socket
\* (in the handshake or in the response) ends there with exactly one
\* NotifyError(Cancelled) and no NotifyResponse.
C4_CancelledAtRead ==
    [][\A r \in Reqs :
          hndl[r].canceled /\ ReadsNext(r) /\ proc'[r] # proc[r] =>
             /\ proc'[r].pc = "done"
             /\ hndl'[r].nError = 1
             /\ hndl'[r].errType = "Cancelled"
             /\ hndl'[r].nResponse = 0]_vars

\* a request cancelled while it waited for the response ended as cancelled,
\* and its connection was not put back
C4_Witness ==
    \E r \in Reqs : /\ proc[r].pc = "done" /\ hndl[r].canceled
                    /\ hndl[r].errType = "Cancelled" /\ hndl[r].nError = 1
                    /\ SslIOStream[OwnSock(r)] = NoStream
                    /\ ActiveSockets = 0

\* ------------------------------------------------------------------- C5
\* C5 as stated: in every reachable state CachedSockets <= the number of
\* queued sockets.
C5_CachedAtMostQueued == CachedSockets <= Queued

\* C5: in every reachable state CachedSockets is the number of queued sockets
\* plus the number of operations between their queue access and their counter
\* access; so it is never below the number of queued sockets, and equal to it
\* when no operation is under way.
C5_CachedCountsQueued ==
    /\ CachedSockets = Queued + InFlight
    /\ Quiescent => CachedSockets = Queued

\* a release has counted its socket and not yet queued it
C5_Witness ==
    \E p \in Procs : proc[p].pc = "relEnq" /\ CachedSockets = Queued + 1 /\ Queued > 0

\* ------------------------------------------------------------------- C6
\* the purger is inside PurgeCache
Purging == purger.pc \in {"loop", "deadDeq", "deadChk", "purgeDeq", "purgeDec"}

\* the steps of the purger thread
PurgerNext ==
    \/ PurgerWait \/ PurgeStart \/ PurgeVisit \/ PurgeDeadDequeue
    \/ PurgeDeadCheck \/ PurgeDequeue \/ OnPurgeSocket \/ PurgerUnlock

\* a bound of the number of steps PurgeCache still takes: the queues left to
\* visit, and within a queue the steps left for it
PurgeRank(pg) ==
    LET B == 2 * Cardinality(SockIds) + 1
        K == B + 4
        left == MaxHostId + 1 - pg.i IN
    CASE pg.pc = "loop" -> left * K + B + 3
      [] pg.pc = "deadDeq" -> left * K + B + 2
      [] pg.pc = "deadChk" -> left * K + B + 1
      [] pg.pc = "purgeDec" -> left * K + 2 * pg.purgeCounter + 2
      [] pg.pc = "purgeDeq" -> left * K + 2 * pg.purgeCounter + 1
      [] OTHER -> 0

\* C6 as stated: a PurgeCache run that started with CachedSockets > 0 and saw
\* no concurrent release ends with a strictly smaller CachedSockets.
C6_PurgeShrinks ==
    purger.pc = "unlock" /\ purger.startCached > 0 /\ ~purger.released =>
       CachedSockets < purger.startCached

\* C6: every PurgeCache run terminates (each of its steps can be taken and
\* lowers a rank that is bounded below) and none of its steps raises
\* CachedSockets; so without concurrent releases the value after the run is at
\* most the value before it.
C6_PurgeTerminates ==
    /\ [](Purging => ENABLED PurgerNext)
    /\ [][Purging /\ purger' # purger /\ proc' = proc =>
             /\ PurgeRank(purger') < PurgeRank(purger)
             /\ PurgeRank(purger') >= 0
             /\ CachedSockets' <= CachedSockets]_vars
    /\ [](purger.pc = "unlock" /\ ~purger.released => CachedSockets <= purger.startCached)

\* a PurgeCache run without concurrent release ended with fewer cached sockets
C6_Witness ==
    /\ purger.pc = "unlock" /\ ~purger.released
    /\ purger.startCached > 0 /\ CachedSockets < purger.startCached

\* ------------------------------------------------------------------- C7
\* C7: no notification of the purger is lost: when SuggestPurgeCache has
\* returned with InPurging_ held, the purger has been woken (it runs
\* PurgeCache and then clears InPurging_).  A purger that is not inside WaitI
\* when CondPurge_ is signalled misses the signal, and InPurging_ stays set.
C7_NotificationNotLost ==
    InPurging_ = 1 /\ (\A p \in Procs : proc[p].pc # "sugGate") =>
       purger.pc \notin {"idle", "wait"}

\* ------------------------------------------------------------------- C8
\* C8: with hard = 1, ActiveSockets = 1 and CachedSockets = 0 an acquire for a
\* host without cached sockets fails with the output-limit error, and makes
\* no socket and no connector job.
C8_SecondAcquireFails ==
    [][\A r \in Reqs :
          /\ EntersConnect(r)
          /\ Limits.Hard = 1 /\ ActiveSockets = 1 /\ CachedSockets = 0
          /\ QSize(ConnList(proc[r].host)) = 0
          => /\ proc'[r].pc = "done"
             /\ hndl'[r].errType = "OutputLimit"
             /\ \A j \in Jobs : proc'[j] = proc[j]]_vars

\* ------------------------------------------------------------------- C9
\* C9: Connect fails with the output-limit error exactly when
\* ActiveSockets + CachedSockets > hard at its entry; it then returns no
\* connection and leaves the counters, the queues, the sockets and the
\* connector jobs as they were.
C9_FailsExactlyWhenExceeded ==
    [][\A r \in Reqs :
          EntersConnect(r) =>
             LET fails == /\ proc'[r].pc = "done"
                          /\ hndl'[r].nError = 1
                          /\ hndl'[r].errType = "OutputLimit" IN
             /\ fails <=> ActiveSockets + CachedSockets > Limits.Hard
             /\ ~fails => proc'[r].pc = "drain" /\ hndl'[r] = hndl[r]
             /\ fails => /\ proc'[r].conn = NoSock /\ proc'[r].res = NoSock
                         /\ ActiveSockets' = ActiveSockets
                         /\ CachedSockets' = CachedSockets
                         /\ Lst_' = Lst_
                         /\ SslIOStream' = SslIOStream
                         /\ \A j \in Jobs : proc'[j] = proc[j]]_vars

\* a request was refused at the entry of Connect, the limit being exceeded
C9_Witness ==
    \E r \in Reqs : /\ proc[r].pc = "done"
                    /\ hndl[r].errType = "OutputLimit"
                    /\ ActiveSockets + CachedSockets > Limits.Hard

\* ------------------------------------------------------------------ C10
\* C10: a request puts its connection back into the pool iff it finished
\* without error: when DoRun ends with a response the socket was moved into
\* its queue by Release; when it ends with an error the socket is not queued,
\* it is closed, and ActiveSockets is decremented once.  Release drops the
\* connection of a successful request when the hard limit is exceeded.
C10_PooledIffNoError ==
    [][\A r \in Reqs :
          proc[r].pc \in {"tls", "recv", "relEnd"} /\ proc'[r].pc = "done" =>
             /\ hndl'[r].nResponse = 1 =>
                   /\ proc[r].conn = NoSock
                   /\ ActiveSockets' = ActiveSockets
             /\ hndl'[r].nError = 1 =>
                   /\ proc[r].conn # NoSock
                   /\ ~(\E h \in QueueIds : InQueue(proc[r].conn, h))
                   /\ SslIOStream'[proc[r].conn] = NoStream
                   /\ ActiveSockets' = ActiveSockets - 1]_vars

\* ------------------------------------------------------------------ C11
\* the socket s sits in a queue of the cache
Pooled(s) == \E h \in QueueIds : InQueue(s, h)

\* C11: every idle connection of the pool that has a TLS engine attached has
\* completed exactly one handshake (its stream holds the SSL object), and
\* over the lifetime of a connection, reuses included, Handshake runs at
\* most once.
C11_HandshakenOnce ==
    \A s \in SockIds :
       /\ SslIOStream[s].handshakes <= 1
       /\ Pooled(s) /\ SslIOStream[s].io =>
             /\ Initialized(SslIOStream[s])
             /\ SslIOStream[s].handshakes = 1

\* a request works on a connection that another request handshook and
\* released to the pool: it was reused without a second handshake
C11_Witness ==
    \E r \in Reqs : \E o \in Reqs \ {r} :
       /\ proc[r].pc = "recv"
       /\ proc[r].conn = OwnSock(o)
       /\ proc[r].reused
       /\ SslIOStream[OwnSock(o)].handshakes = 1

\* ------------------------------------------------------------------ C12
\* C12 as stated: every connection that Connect returns with reused = true
\* carries a TLS engine that has completed its handshake.
C12_ReusedIsHandshaken ==
    \A r \in Reqs :
       proc[r].pc = "tls" /\ proc[r].reused =>
          /\ SslIOStream[proc[r].conn].io
          /\ Initialized(SslIOStream[proc[r].conn])

\* C12: a connection that Connect returns with reused = true and that
\* carries a TLS engine has completed its handshake, and the request that
\* receives it performs no handshake; a reused connection without an engine
\* (a connector job cached it after the TCP connect) is handshaken by the
\* request that receives it, once.
C12_ReusedEngineIsHandshaken ==
    /\ [](\A r \in Reqs :
             proc[r].pc = "tls" /\ proc[r].reused /\ SslIOStream[proc[r].conn].io =>
                /\ Initialized(SslIOStream[proc[r].conn])
                /\ SslIOStream[proc[r].conn].handshakes = 1)
    /\ [][\A r \in Reqs :
             proc[r].pc = "tls" /\ proc[r].reused /\ proc'[r].pc = "recv" =>
                LET s == proc[r].conn IN
                IF SslIOStream[s].io
                THEN SslIOStream'[s].handshakes = SslIOStream[s].handshakes
                ELSE /\ SslIOStream[s].handshakes = 0
                     /\ SslIOStream'[s].handshakes = 1]_vars

\* a request got the socket of a connector job as a reused connection and
\* has handshaken on it
C12_Witness ==
    \E r \in Reqs : \E j \in Jobs :
       /\ proc[r].pc = "recv"
       /\ proc[r].reused
       /\ proc[r].conn = JobSock(j)
       /\ SslIOStream[JobSock(j)].handshakes = 1

\* ------------------------------------------------------------------ C13
\* request r is the only one that was started, nothing went wrong (no
\* cancel, timeout or fault), it has ended, the connector jobs it created
\* have ended and the purger is not in a run
SingleRequestDone(r) ==
    /\ proc[r].pc = "done"
    /\ \A o \in Reqs \ {r} : proc[o].pc = "idle"
    /\ env.events = MaxEvents
    /\ Quiescent

\* C13: starting from an empty pool, after a single GET that the server
\* answered with status 200 has completed and every job it started has
\* finished, the handle received NotifyResponse, ActiveSockets = 0 and
\* CachedSockets = 1.
C13_HappyGetCachesOne ==
    \A r \in Reqs :
       SingleRequestDone(r) /\ hndl[r].nError = 0 =>
          /\ hndl[r].nResponse = 1
          /\ ActiveSockets = 0
          /\ CachedSockets = 1

\* ------------------------------------------------------------------ C14
\* the sockets that exist: each was made by one Connect or connector job,
\* which started one TCP connect on it
Connected == {s \in SockIds : Holders(s) > 0}

\* requests r and o go to the same host one after the other (o is not
\* started before r has ended) and nothing is cancelled, times out or fails
Sequential(r, o) ==
    /\ r # o
    /\ proc[r].host = proc[o].host
    /\ env.events = MaxEvents
    /\ proc[o].pc = "idle" \/ proc[r].pc = "done"
    /\ hndl[r].nError = 0 /\ hndl[o].nError = 0

\* C14: for two sequential successful GET requests to the same host,
\* starting from an empty pool, the second acquire returns a connection with
\* reused = true, and across both requests exactly one TCP connect is
\* started: there is never a second socket, and the second request works on
\* a reused connection.
C14_OneConnectForTwoGets ==
    \A r \in Reqs : \A o \in Reqs :
       Sequential(r, o) =>
          /\ Cardinality(Connected) <= 1
          /\ proc[o].pc \in {"tls", "recv"} => proc[o].reused

\* ------------------------------------------------------------------ C15
\* request r is the only one that was started, its Handshake threw for the
\* certificate of another host (under CheckCertificateHostname) and nothing
\* else went wrong; it has ended, the connector jobs it created have ended
\* and the purger is not in a run
HostnameMismatchDone(r) ==
    /\ proc[r].pc = "done"
    /\ hndl[r].errText = "CheckCertHostname(client)"
    /\ \A o \in Reqs \ {r} : proc[o].pc = "idle" /\ ~hndl[o].canceled
    /\ Quiescent

\* C15: with CheckCertificateHostname enabled and starting from an empty
\* pool, a request to a host whose certificate does not match ends with one
\* NotifyError of the TLS kind naming CheckCertHostname, and once all jobs it
\* started have finished CachedSockets = 0.
C15_HostnameMismatch ==
    \A r \in Reqs :
       HostnameMismatchDone(r) =>
          /\ hndl[r].nError = 1
          /\ hndl[r].nResponse = 0
          /\ hndl[r].errType = "Tls"
          /\ CachedSockets = 0

\* ------------------------------------------------------------------ C16
\* the template begins with the label "*": it is "*" or "*.<domain>"
WildcardLabel(t) == t = <<"*">> \/ (Len(t) >= 2 /\ t[1] = "*" /\ t[2] = ".")

\* the <domain> of a template "*.<domain>" (empty for "*" and "*.")
DomainOf(t) == SubSeq(t, 3, Len(t))

NoDot(s) == \A i \in 1..Len(s) : s[i] # "."

\* the name is one label (no '.', possibly empty), a '.', and the domain d in
\* any case of letters
LabelThenDomain(name, d) ==
    \E k \in 0..(Len(name) - 1) :
       /\ NoDot(SubSeq(name, 1, k))
       /\ name[k + 1] = "."
       /\ EqualNoCase(SubSeq(name, k + 2, Len(name)), d)

\* C16 as stated: MatchDomainName is case-insensitive; a template
\* "*.<domain>" matches a name iff the name is exactly one left-most label
\* followed by ".<domain>"; a template without a wildcard label matches only
\* the equal name, a '*' elsewhere being an ordinary character.
C16_WildcardIffOneLabel ==
    fn.op = "MatchDomainName" /\ fn.done =>
       /\ (Len(fn.tmpl) >= 2 /\ WildcardLabel(fn.tmpl)) =>
             (fn.ret <=> LabelThenDomain(fn.name, DomainOf(fn.tmpl)))
       /\ ~WildcardLabel(fn.tmpl) => (fn.ret <=> EqualNoCase(fn.tmpl, fn.name))

\* C16: MatchDomainName is case-insensitive and takes only a whole left-most
\* label "*" for a wildcard.  A template "*.<domain>" with a non-empty
\* domain matches exactly the names that are one label (possibly empty)
\* followed by ".<domain>"; the templates "*" and "*." match exactly the names
\* without a '.' and the names that are one label followed by a '.'; any
\* other template matches only the equal name.
C16_WildcardDropsFirstLabel ==
    fn.op = "MatchDomainName" /\ fn.done =>
       /\ (WildcardLabel(fn.tmpl) /\ DomainOf(fn.tmpl) # <<>>) =>
             (fn.ret <=> LabelThenDomain(fn.name, DomainOf(fn.tmpl)))
       /\ (WildcardLabel(fn.tmpl) /\ DomainOf(fn.tmpl) = <<>>) =>
             (fn.ret <=> (NoDot(fn.name) \/ LabelThenDomain(fn.name, <<>>)))
       /\ ~WildcardLabel(fn.tmpl) => (fn.ret <=> EqualNoCase(fn.tmpl, fn.name))

\* "*.a" was matched against "Aa.A" and accepted it
C16_Witness ==
    /\ fn.op = "MatchDomainName" /\ fn.done
    /\ fn.tmpl = <<"*", ".", "a">>
    /\ fn.name = <<"A", "a", ".", "A">>
    /\ fn.ret

\* ------------------------------------------------------------------ C17
\* some entry of type DNS of the Subject-Alt-Name extension matches the host
AltNameMatches(cert, hostname) ==
    \E i \in 1..Len(cert.names) :
       cert.names[i].type = "GEN_DNS" /\ MatchDomainName(cert.names[i].value, hostname)

\* the certificate has a Common Name and it matches the host
CommonNameMatches(cert, hostname) ==
    cert.hasCN /\ MatchDomainName(cert.commonName, hostname)

\* C17 as stated: CheckCertHostname accepts a certificate iff some
\* Subject-Alt-Name entry of type DNS matches the requested hostname or, when
\* no such entry matches, the Common Name matches the hostname.
C17_AltNameOrCommonName ==
    fn.op = "CheckCertHostname" /\ fn.done =>
       (fn.ret <=> \/ AltNameMatches(fn.cert, fn.hostname)
                   \/ CommonNameMatches(fn.cert, fn.hostname))

\* C17: CheckCertHostname accepts a certificate iff some Subject-Alt-Name
\* entry of type DNS matches the requested hostname or the certificate has no
\* Subject-Alt-Name extension at all and its Common Name matches the
\* hostname; with the extension present the Common Name is not consulted.
C17_CommonNameOnlyWithoutExtension ==
    fn.op = "CheckCertHostname" /\ fn.done =>
       (fn.ret <=> \/ AltNameMatches(fn.cert, fn.hostname)
                   \/ ~fn.cert.ext /\ CommonNameMatches(fn.cert, fn.hostname))

\* a certificate whose extension has entries, none matching, and whose
\* Common Name matches the host was rejected
C17_Witness ==
    /\ fn.op = "CheckCertHostname" /\ fn.done
    /\ fn.cert.ext /\ fn.cert.names # <<>>
    /\ ~AltNameMatches(fn.cert, fn.hostname)
    /\ CommonNameMatches(fn.cert, fn.hostname)
    /\ ~fn.ret

\* ------------------------------------------------------------------ C18
\* every event b of the log has an event a before it
Precedes(a, b) ==
    \A j \in 1..Len(fn.log) : fn.log[j] = b => \E i \in 1..(j - 1) : fn.log[i] = a

Logged(a) == \E i \in 1..Len(fn.log) : fn.log[i] = a

\* C18: within one client request, the handshake (run only if the engine has
\* not handshaken) completes before any request byte is sent; the send and
\* WaitUntilWritten complete before SetSendComplete is signalled;
\* SetSendComplete precedes the first read of the response; on success the
\* connection is released to the pool before NotifyResponse is delivered.
C18_OrderOfEvents ==
    fn.op = "DoRun" =>
       /\ Logged("SendTo") => Initialized(fn) /\ fn.handshakes = 1
       /\ \A j \in 1..Len(fn.log) :
             fn.log[j] = "Handshake" => \A i \in 1..(j - 1) : fn.log[i] # "SendTo"
       /\ Precedes("SendTo", "WaitUntilWritten")
       /\ Precedes("WaitUntilWritten", "SetSendComplete")
       /\ Precedes("SetSendComplete", "Read")
       /\ Precedes("Release", "NotifyResponse")
       /\ Logged("NotifyResponse") => fn.error = "none" /\ Logged("Read")

\* a request on a fresh connection went through all of its steps
C18_Witness ==
    /\ fn.op = "DoRun" /\ fn.pc = "end"
    /\ fn.log = <<"Handshake", "SendTo", "WaitUntilWritten", "SetSendComplete",
                  "Read", "Release", "NotifyResponse">>

\* ------------------------------------------------------------------ C19
\* C19 as stated: WaitUntilWritten returns normally only when the kernel send
\* buffer of the socket is empty (ioctl(FIONWRITE) reported 0 bytes); in
\* every other case it keeps waiting or throws.
C19_ReturnsOnlyWhenDrained ==
    fn.op = "DoRun" /\ Logged("WaitUntilWritten") => fn.nbytes = 0

\* C19: WaitUntilWritten returns normally only when ioctl(FIONWRITE) reported
\* 0 pending bytes or, with bytes still pending, when PollT reported the
\* socket readable; in every other case it keeps waiting with the timeout
\* doubled (PollT timed out) or throws.
C19_ReturnsDrainedOrReadable ==
    /\ [](fn.op = "DoRun" /\ Logged("WaitUntilWritten") =>
             fn.nbytes = 0 \/ fn.readable)
    /\ [][fn.op = "DoRun" /\ fn.pc = "wait" =>
             \/ fn'.pc = "signal" /\ (fn.nbytes = 0 \/ fn'.readable)
             \/ /\ fn'.pc = "wait"
                /\ fn.nbytes > 0 /\ fn'.nbytes <= fn.nbytes
                /\ fn'.tout = 2 * fn.tout
             \/ /\ fn'.pc = "notify"
                /\ fn'.error \in {"Unknown", "Cancelled"}
                /\ ~Logged("WaitUntilWritten")']_vars

\* WaitUntilWritten returned after a timeout of PollT, with bytes still in
\* the send buffer and the socket readable
C19_Witness ==
    /\ fn.op = "DoRun" /\ Logged("WaitUntilWritten")
    /\ fn.polls > 0
    /\ fn.nbytes > 0
    /\ fn.readable

\* ------------------------------------------------------------------ C20
\* C20: the binding of a bio to a coroutine is released on every exit path:
\* after the try block of a client request (DoRun) or of a server job (TRead,
\* TWrite, TFail) is left, normally or by exception, Cont_ of the bio is
\* null; so the connection that Release hands to the idle queue has no
\* coroutine bound, and a BIO read or write attempted then returns -1.
C20_ContReleasedOnEveryExit ==
    fn.op \in {"DoRun"} \cup ServerJobs =>
       /\ fn.pc \in {"release", "notify", "end", "after"} => fn.Cont_ = NoCont
       /\ Logged("Release") => fn.Cont_ = NoCont
       /\ fn.pc \in {"send", "wait", "signal", "read", "body"} => fn.Cont_ = Self
       /\ fn.pc = "after" => fn.bioRet = -1

\* a TRead job ended by an exception (Close(false)) and a later call of a
\* method of its bio got -1
C20_Witness ==
    /\ fn.op = "TRead" /\ fn.pc = "after"
    /\ Logged("Close(false)")
    /\ fn.Cont_ = NoCont
    /\ fn.bioRet = -1

\* ------------------------------------------------------------------ C21
\* C21: UnusedConnKeepaliveTimeout returns max_keepalive when counter <= soft;
\* otherwise, with e = counter - soft, d = hard - soft, left = max(0, d - e),
\* it returns max(min_keepalive, floor(max_keepalive * left / (d + 1))); so
\* the result lies in [min_keepalive, max_keepalive], does not increase with
\* the counter, and is min_keepalive once counter >= hard.
C21_KeepaliveFormula ==
    fn.op = "UnusedConnKeepaliveTimeout" /\ fn.done =>
       LET soft == fn.Limits.Soft
           hard == fn.Limits.Hard
           e == fn.Counter - soft
           d == hard - soft
           left == IF d - e > 0 THEN d - e ELSE 0
           f == (fn.bounds.max * left) \div (d + 1) IN
       /\ fn.Counter <= soft => fn.ret = fn.bounds.max
       /\ fn.Counter > soft => fn.ret = (IF f > fn.bounds.min THEN f ELSE fn.bounds.min)
       /\ fn.bounds.min <= fn.ret /\ fn.ret <= fn.bounds.max
       /\ UnusedConnKeepaliveTimeout(fn.Counter + 1, fn.Limits,
                                     fn.bounds.max, fn.bounds.min) <= fn.ret
       /\ fn.Counter >= hard => fn.ret = fn.bounds.min

\* the timeout was computed between the limits and came out strictly between
\* the bounds
C21_Witness ==
    /\ fn.op = "UnusedConnKeepaliveTimeout" /\ fn.done
    /\ fn.Limits.Soft < fn.Counter /\ fn.Counter < fn.Limits.Hard
    /\ fn.bounds.min < fn.ret /\ fn.ret < fn.bounds.max

\* ------------------------------------------------------------------ C22
\* the documented example: soft = 10, hard = 100, min = 10 s, max = 120 s
\* and a counter of 55
KeepaliveExample ==
    /\ fn.op = "UnusedConnKeepaliveTimeout" /\ fn.done
    /\ fn.Limits = [Soft |-> 10, Hard |-> 100]
    /\ fn.bounds = [min |-> 10, max |-> 120]
    /\ fn.Counter = 55

\* C22 as stated: in the example the idle timeout is
\* 120 * (100 - 55 - 10) / (100 - 10 + 1), about 47 s (46 with integer
\* division).
C22_ExampleIs46 ==
    KeepaliveExample => fn.ret \in {(120 * (100 - 55 - 10)) \div (100 - 10 + 1), 47}

\* C22: in the example the idle timeout is
\* 120 * (100 - 55) / (100 - 10 + 1) = 59 s with integer division: the
\* excess over soft is 45, and 90 - 45 = 45 descriptors are left.
C22_ExampleIs59 ==
    KeepaliveExample => fn.ret = (120 * (100 - 55)) \div (100 - 10 + 1) /\ fn.ret = 59

C22_Witness == KeepaliveExample /\ fn.ret = 59

\* ------------------------------------------------------------------ C23
\* the streams a live request or a job that has not finished refers to
Serving(f) ==
    {c \in ConnIds : \/ \E i \in DOMAIN f.jobs : f.jobs[i].IO_ = c /\ ~f.jobs[i].done
                     \/ \E i \in DOMAIN f.reqs : f.reqs[i].alive /\ f.reqs[i].IO_ = c}

C25_ResponseThenRead ==
    (/\ fn.op = "TServer"
     /\ fn.last.ran.job \in {"TWrite", "TFail"}
     /\ fn.last.end # "ioerror")
    => /\ fn.last.wrote
       /\ fn.last.reads = 1
       /\ \E i \in DOMAIN fn.jobs :
            /\ fn.jobs[i] = EnqueuedRead(fn.last.ran.IO_)
            /\ \A k \in DOMAIN fn.jobs : fn.jobs[k].IO_ = fn.last.ran.IO_ => k = i

\* ------------------------------------------------------------------ C26
\* C26: whenever the governor reports the hard limit exceeded (the counter,
\* the new socket included, is above hard) the accept path closes the
\* socket at once and creates no stream and no TRead for it; with fixed
\* limits the connections that a job or a request serves never number more
\* than hard.
C26_RefusedAboveHard ==
    fn.op = "TServer" =>
        /\ Cardinality(Serving(fn)) <= fn.Limits.Hard
        /\ fn.last.ran.job = "OnAcceptFull" =>
            /\ fn.last.end = "refused" <=> fn.last.Counter > fn.Limits.Hard
            /\ fn.last.end = "refused" =>
                /\ fn.S[fn.last.ran.IO_] = [fd |-> "closed", io |-> "none"]
                /\ ~Held(fn, fn.last.ran.IO_)
                /\ fn.Counter = fn.last.Counter - 1

\* the third socket is refused while two connections are served, hard = 2
C26_Witness ==
    /\ fn.op = "TServer"
    /\ fn.Limits.Hard = 2
    /\ fn.last.ran.job = "OnAcceptFull"
    /\ fn.last.end = "refused"
    /\ fn.last.ran.IO_ = 3
    /\ Cardinality(Serving(fn)) = 2

\* ------------------------------------------------------------------ C27
\* C27: the TWrite that SendReply enqueues carries a compression scheme,
\* and the response it writes a Content-Encoding header, if and only if the
\* best scheme of the request is gzip and the gzip form is not larger than
\* the handler's data; otherwise the body is the handler's data unchanged
\* and there is no Content-Encoding; in both cases Content-Length is the
\* size of the body written.
C27_EncodingIffGzipFits ==
    fn.op = "TServer" =>
        /\ \A i \in DOMAIN fn.jobs :
            LET j == fn.jobs[i]
                fits == j.best = "gzip" /\ j.orig.gz <= j.orig.size IN
            (j.job = "TWrite" /\ j.Error_ = "none") =>
                /\ j.CompressionScheme_ # "" <=> fits
                /\ fits => j.CompressionScheme_ = "gzip"
                             /\ j.data = [size |-> j.orig.gz, gzipped |-> TRUE]
                /\ ~fits => j.data = [size |-> j.orig.size, gzipped |-> FALSE]
        /\ (fn.last.ran.job = "TWrite" /\ fn.last.ran.Error_ = "none" /\ fn.last.wrote) =>
            LET j == fn.last.ran
                fits == j.best = "gzip" /\ j.orig.gz <= j.orig.size IN
            /\ fn.last.Encoding # "" <=> fits
            /\ fits => fn.last.Encoding = "gzip"
                         /\ fn.last.body = [size |-> j.orig.gz, gzipped |-> TRUE]
            /\ ~fits => fn.last.body = [size |-> j.orig.size, gzipped |-> FALSE]
            /\ fn.last.ContentLength = fn.last.body.size

\* a gzip response of 60 bytes for 100 bytes of data was written, and the
\* answer to another gzip request, whose gzip form is larger than the data,
\* waits to be written as it is
C27_Witness ==
    /\ fn.op = "TServer"
    /\ fn.last.ran.job = "TWrite"
    /\ fn.last.wrote
    /\ fn.last.Encoding = "gzip"
    /\ fn.last.ran.orig.size = 100
    /\ fn.last.ContentLength = 60
    /\ \E i \in DOMAIN fn.jobs :
        /\ fn.jobs[i].job = "TWrite"
        /\ fn.jobs[i].best = "gzip"
        /\ fn.jobs[i].orig.gz > fn.jobs[i].orig.size
        /\ fn.jobs[i].CompressionScheme_ = ""

\* ------------------------------------------------------------------ C28
\* C28: the limits that the pool and the governor have, and those a reader
\* sees, satisfy soft < hard in every reachable state, also while the
\* setters (each called with hard > soft) run.
C28_SoftBelowHard ==
    fn.op = "SetFdLimits" =>
        /\ Limits.Soft < Limits.Hard
        /\ fn.Limits.Soft < fn.Limits.Hard
        /\ fn.seen.Soft < fn.seen.Hard

\* ------------------------------------------------------------------ C29
\* C29, as stated: once the flag is set while a cancellable read is under
\* way (handshake or response), this read returns CANCELED_READ at its next
\* look at the flag, after at most one poll timeout of at most 1 s, and the
\* request ends with NotifyError(Cancelled), without NotifyResponse and
\* without the connection going back to the cache.
C29_PendingReadIsCanceled ==
    fn.op = "BIOReadMethod" =>
        /\ fn.Timeout_ <= MaxTimeoutUs
        /\ fn.polls <= 1
        /\ (fn.pc = "return" /\ fn.setIn = fn.reads) => fn.ret = SSL_RVAL_TIMEOUT
        /\ (fn.pc = "end" /\ fn.canceled) =>
            fn.errType = "Cancelled" /\ fn.nResponse = 0 /\ ~fn.pooled

\* C29, amended: the flag is looked at only at the head of the poll loop.
\* A flag set before that look, or during a poll that then times out (one
\* poll of at most 1 s), makes the read return CANCELED_READ, and the
\* request ends with NotifyError(Cancelled), no NotifyResponse and the
\* connection not cached.  A poll that delivers bytes, the end of the
\* stream or an error returns that to the caller although the flag was set
\* during it; the request then ends as without the flag unless it reads
\* again.
C29_CanceledAtNextLook ==
    fn.op = "BIOReadMethod" =>
        /\ fn.Timeout_ \in FirstTimeoutUs..MaxTimeoutUs
        /\ fn.polls <= 1
        /\ (fn.pc = "return" /\ fn.setIn = fn.reads
              /\ (fn.setAt = "check" \/ fn.polls = 1)) => fn.ret = SSL_RVAL_TIMEOUT
        /\ (fn.pc \in {"return", "end"} /\ fn.ret = SSL_RVAL_TIMEOUT) =>
            /\ fn.canceled
            /\ fn.pc = "end" => fn.errType = "Cancelled" /\ fn.nResponse = 0 /\ ~fn.pooled
        /\ (fn.pc \in {"return", "end"} /\ fn.canceled /\ fn.ret # SSL_RVAL_TIMEOUT) =>
            fn.setIn = fn.reads /\ fn.setAt = "ReadT" /\ fn.polls = 0

\* the flag was set during a poll of a response read, the poll timed out and
\* the request ended as cancelled
C29_Witness ==
    /\ fn.op = "BIOReadMethod"
    /\ fn.pc = "end"
    /\ fn.during = "response"
    /\ fn.setAt = "ReadT"
    /\ fn.polls = 1
    /\ fn.Timeout_ > FirstTimeoutUs
    /\ fn.errType = "Cancelled"
    /\ fn.nResponse = 0
    /\ ~fn.pooled

\* ------------------------------------------------------------------ C30
\* ceil(qsize * frac256 / 256)
ShareRoundedUp(qsize, frac256) == (qsize * frac256 + 255) \div 256

\* C30, as stated: from every non-empty queue a purge run removes
\* ceil(queue_size * fraction / 256) entries, where fraction =
\* clamp(8, (excess_soft * 256) / (cached + 1), 256) is computed once at
\* the start of the run and lies in [8, 256].
C30_RemovesShareRoundedUp ==
    (fn.op = "PurgeCache" /\ fn.done) =>
        /\ fn.frac256 = Min2(Max2(8, (fn.excess * 256) \div (fn.cached + 1)), 256)
        /\ fn.frac256 \in 8..256
        /\ fn.qsize # 0 => fn.removed = ShareRoundedUp(fn.qsize, fn.frac256)

\* C30, amended: the fraction is as stated; the number removed from a
\* non-empty queue is floor(queue_size * fraction / 256) when that is at
\* least 1; when it is 0, one entry is removed from a queue of more than 2,
\* and from a queue of 1 or 2 the oldest entry is removed only if its peer
\* has closed it.  The number is never above the share rounded up and is
\* below it whenever the share has a fractional part and a whole part.
C30_RemovesShareRoundedDown ==
    (fn.op = "PurgeCache" /\ fn.done) =>
        LET share == (fn.qsize * fn.frac256) \div 256 IN
        /\ fn.frac256 = Min2(Max2(8, (fn.excess * 256) \div (fn.cached + 1)), 256)
        /\ fn.frac256 \in 8..256
        /\ share >= 1 => fn.removed = share
        /\ (share = 0 /\ fn.qsize > 2) => fn.removed = 1
        /\ (share = 0 /\ fn.qsize \in 1..2) => fn.removed = IF fn.dead THEN 1 ELSE 0
        /\ fn.qsize = 0 => fn.removed = 0
        /\ fn.removed <= ShareRoundedUp(fn.qsize, fn.frac256)
        /\ fn.removed <= fn.qsize

\* a queue of 3 with fraction 128: the share is 1.5 and one entry goes
C30_Witness ==
    /\ fn.op = "PurgeCache"
    /\ fn.done
    /\ fn.qsize = 3
    /\ fn.frac256 = 128
    /\ fn.removed = 1
    /\ ShareRoundedUp(fn.qsize, fn.frac256) = 2

\* ------------------------------------------------------------------ C31
\* C31: a purge run is started only by a release that saw cached > 0 and
\* active + cached > soft, found InPurging_ clear, and for which the gating
\* held: cached > min(max_host_id, 1024) / 16 and
\* ((active + 1) * 256) / (delta + 1) + ((cached + 1) * 256) / (active + 1)
\* >= 256; a release for which the gating fails, or which finds InPurging_
\* set, signals nothing and leaves InPurging_ as it found it.
C31_PurgeOnlyWhenGated ==
    (fn.op = "SuggestPurgeCache" /\ fn.done) =>
        LET active == fn.ActiveSockets
            cached == fn.CachedSockets
            delta == fn.Limits.Hard - fn.Limits.Soft
            cap == IF fn.MaxConnId_ < 1024 THEN fn.MaxConnId_ ELSE 1024
            gating == /\ cached > cap \div 16
                      /\ ((active + 1) * 256) \div (delta + 1)
                           + ((cached + 1) * 256) \div (active + 1) >= 256
            observed == cached > 0 /\ active + cached > fn.Limits.Soft IN
        /\ fn.signal <=> (observed /\ fn.found = 0 /\ gating)
        /\ fn.purge => fn.signal
        /\ fn.signal => fn.InPurging_ = 1
        /\ ~fn.signal => fn.InPurging_ = fn.found

\* over the soft limit with a cache, InPurging_ clear, but far from the
\* hard limit and with most sockets at work: no signal, InPurging_ clear
C31_Witness ==
    /\ fn.op = "SuggestPurgeCache"
    /\ fn.done
    /\ fn.CachedSockets = 1
    /\ fn.ActiveSockets = 10
    /\ fn.Limits = [Soft |-> 0, Hard |-> 100]
    /\ fn.found = 0
    /\ ~fn.signal
    /\ fn.InPurging_ = 0

\* ------------------------------------------------------------------ C32
\* C32: MaxConnId_ never decreases, however the releases interleave, and
\* in every state it is at least the id of every host whose queue holds or
\* has held a connection: it is raised before the Enqueue.
C32_MaxConnIdCoversQueues ==
    /\ [](fn.op = "Release" => \A h \in fn.Lst : fn.MaxConnId_ >= h)
    /\ [][fn.op = "Release" => fn'.MaxConnId_ >= fn.MaxConnId_]_vars

\* two releases for different hosts are both about to swap, and a third
\* has put its connection into its queue
C32_Witness ==
    /\ fn.op = "Release"
    /\ \E a, b, d \in 1..MaxReleasers :
        /\ fn.t[a].pc = "cas" /\ fn.t[b].pc = "cas"
        /\ fn.t[a].Id < fn.t[b].Id
        /\ fn.t[a].maxConnId = fn.t[b].maxConnId
        /\ fn.t[d].pc = "done"
        /\ fn.t[d].Id > 0

\* ---------------------------------------------------------------- C33
\* the checkpoint of the wait issued with the current delay
Checkpoint(delay) == Min2(ConnectDeadlineMs, delay)

\* the checkpoint of the k-th wait of a fresh connect: 8 ms doubled k - 1 times
\* and capped at the 10 s deadline
KthCheckpoint(k) == Min2(ConnectDeadlineMs, ConnectFirstDelayMs * 2 ^ (k - 1))

\* C33: the fresh connect of Connect terminates.  Every wait (ConnectD first,
\* PollD afterwards) is issued at one of the twelve checkpoints start + 8 ms,
\* 16 ms, 32 ms, ..., 8192 ms, 10 s; every wait ends with the connection, with
\* the connect error, or - only when it timed out or was interrupted before
\* the 10 s deadline - with the delay doubled for the next wait; so the
\* twelfth wait is the last one
C33_ConnectTerminates ==
    /\ [](fn.op = "Connect" =>
             \A r \in Reqs :
                proc[r].pc \in {"wait", "retryDec", "retryChk"} =>
                   \E k \in 1..12 : /\ proc[r].delay = ConnectFirstDelayMs * 2 ^ (k - 1)
                                    /\ Checkpoint(proc[r].delay) = KthCheckpoint(k))
    /\ [][fn.op = "Connect" =>
             \A r \in Reqs :
                proc[r].pc = "wait" /\ proc'[r] # proc[r] =>
                   \/ proc'[r].pc = "tls" /\ proc'[r].conn = proc[r].res
                   \/ /\ proc'[r].pc = "done"
                      /\ hndl'[r].nError = 1 /\ hndl'[r].errType = "Connect"
                   \/ /\ Checkpoint(proc[r].delay) < ConnectDeadlineMs
                      /\ proc'[r].pc \in {"wait", "retryDec"}
                      /\ proc'[r].delay = 2 * proc[r].delay
                      /\ Checkpoint(proc'[r].delay) > Checkpoint(proc[r].delay)]_vars

\* the twelfth wait of a fresh connect is pending, at the 10 s deadline
C33_Witness ==
    /\ fn.op = "Connect"
    /\ \E r \in Reqs : /\ proc[r].pc = "wait"
                       /\ proc[r].delay = ConnectFirstDelayMs * 2 ^ 11
                       /\ Checkpoint(proc[r].delay) = ConnectDeadlineMs

\* ---------------------------------------------------------------- C34
\* this step creates the connector job j
Started(j) == proc[j].pc = "free" /\ proc'[j].pc = "run"

\* this step is Executor()->Create throwing inside Connect's try/catch
CreateThrew == env'.events < env.events

\* a step of a connector job j: the connect or poll succeeded / failed, the
\* limit test of Release, the Enqueue of Release
ConnectorSucceeds(j) == proc[j].pc = "run" /\ proc'[j].pc = "relChk"
ConnectorFails(j) == proc[j].pc = "run" /\ proc'[j].pc = "free"

\* what Connect does with connectors besides creating them, and what a
\* connector does to the pool once its socket is connected or has failed
ConnectorSteps ==
    /\ \A r \in Reqs :
          /\ proc[r].pc = "drainChk" => ~Started(TakeoverJob(r))
          /\ proc[r].pc = "drainChk" /\ proc'[r].pc = "drain" => ~Started(FreshJob(r))
          /\ proc[r].pc = "drain" => ~Started(TakeoverJob(r))
          /\ proc[r].pc = "drain" /\ proc'[r].pc = "drainDec" => ~Started(FreshJob(r))
          /\ proc[r].pc \in {"wait", "retryDec"} =>
                ~Started(FreshJob(r)) /\ ~Started(TakeoverJob(r))
          /\ proc[r].pc = "retryChk" => ~Started(FreshJob(r))
          /\ proc[r].pc = "retryChk" /\ proc'[r].pc = "tls" =>
                proc'[r].conn = proc[r].res2
          /\ Started(TakeoverJob(r)) =>
                /\ proc'[TakeoverJob(r)].res = proc[r].res
                /\ proc[r].res = OwnSock(r)
    /\ \A j \in Jobs :
          /\ ConnectorSucceeds(j) =>
                /\ proc'[j].conn # NoSock
                /\ ActiveSockets' = ActiveSockets + 1
          /\ proc[j].pc = "relEnq" /\ proc'[j].pc # "relEnq" =>
                /\ Lst_' = [Lst_ EXCEPT ![proc[j].host] = Append(@, proc[j].conn)]
                /\ proc'[j].conn = NoSock
          /\ ConnectorFails(j) =>
                UNCHANGED <<ActiveSockets, CachedSockets, Lst_, MaxConnId_, InPurging_>>

\* C34 as stated: a connector is started on the reuse path iff the live entry
\* left the queue empty, on the fresh path once before the foreground connect
\* and once more (taking the half-open socket) iff a live queued connection is
\* adopted in the retry loop; a successful connector puts its socket into the
\* pool and a failing one changes no pool state
C34_ConnectorsAsStated ==
    [][fn.op = "Connect" =>
          /\ ConnectorSteps
          /\ \A r \in Reqs :
                /\ proc[r].pc = "drainChk" /\ proc'[r].pc = "tls" =>
                      (Started(FreshJob(r)) <=> QSize(ConnList(proc[r].host)) = 0)
                /\ proc[r].pc = "drain" /\ proc'[r].pc = "wait" => Started(FreshJob(r))
                /\ proc[r].pc = "retryChk" =>
                      (Started(TakeoverJob(r)) <=> proc'[r].pc = "tls")
          /\ \A j \in Jobs :
                proc[j].pc = "relChk" /\ proc'[j].pc # "relChk" => proc'[j].pc = "relInc"]_vars

\* C34, amended: as stated, except that a connector is started only if
\* Executor()->Create does not throw (Connect ignores the exception), and that
\* the Release of a successful connector puts the socket into the pool only
\* while ActiveSockets + CachedSockets, the new socket counted, does not
\* exceed the hard limit; otherwise the socket is closed
C34_ConnectorsStarted ==
    [][fn.op = "Connect" =>
          /\ ConnectorSteps
          /\ \A r \in Reqs :
                /\ proc[r].pc = "drainChk" /\ proc'[r].pc = "tls" =>
                      /\ Started(FreshJob(r)) => QSize(ConnList(proc[r].host)) = 0
                      /\ QSize(ConnList(proc[r].host)) = 0 =>
                            Started(FreshJob(r)) \/ CreateThrew
                /\ proc[r].pc = "drain" /\ proc'[r].pc = "wait" =>
                      Started(FreshJob(r)) \/ CreateThrew
                /\ proc[r].pc = "retryChk" =>
                      /\ Started(TakeoverJob(r)) => proc'[r].pc = "tls"
                      /\ proc'[r].pc = "tls" => Started(TakeoverJob(r)) \/ CreateThrew
          /\ \A j \in Jobs :
                proc[j].pc = "relChk" /\ proc'[j].pc # "relChk" =>
                   (proc'[j].pc = "relInc" <=> ExceedHardLimit = 0)]_vars

\* the second connector of a request has connected the half-open socket it
\* took over and put it into the queue of the host
C34_Witness ==
    /\ fn.op = "Connect"
    /\ \E r \in Reqs :
          /\ proc[r].pc = "tls" /\ ~proc[r].reused
          /\ proc[r].conn # OwnSock(r)
          /\ \E i \in 1..Len(Lst_[proc[r].host]) : Lst_[proc[r].host][i] = OwnSock(r)

\* ---------------------------------------------------------------- C35
\* C35 as stated: in every cancellable read, the reads that follow an earlier
\* read on the same connection included, the poll timeout starts at 10 ms, is
\* replaced by min(1 s, t + t/2) after each timed-out poll and never exceeds
\* 1 s
C35_TimeoutRestartsPerRead ==
    /\ [](fn.op = "BIOReadMethod" =>
             FirstTimeoutUs <= fn.Timeout_ /\ fn.Timeout_ <= MaxTimeoutUs)
    /\ [][fn.op = "BIOReadMethod" =>
             /\ fn.pc = "ReadT" /\ fn'.pc = "check" =>
                   fn'.Timeout_ = Min2(MaxTimeoutUs, fn.Timeout_ + fn.Timeout_ \div 2)
             /\ fn'.reads # fn.reads => fn'.Timeout_ = FirstTimeoutUs]_vars

\* ---------------------------------------------------------------- C36
\* the jobs the dispatcher has taken from the queue
Dequeued ==
    {j \in 1..(fn.next - 1) : \A i \in 1..Len(fn.JQ_) : fn.JQ_[i] # j}

\* the coroutines were started in the order of Enqueue, one per job at most
StartedInOrder ==
    \A i, k \in 1..Len(fn.started) : i < k => fn.started[i] < fn.started[k]

\* after the null job: the dispatcher has left its loop, aborted the executor
\* and starts nothing more
StopsAtNull ==
    /\ (/\ fn.pc = "Dequeue" /\ fn.JQ_ # <<>> /\ Head(fn.JQ_) = NullJob
        /\ fn'.JQ_ # fn.JQ_ /\ Len(fn'.JQ_) <= Len(fn.JQ_))
       => fn'.pc = "Abort" /\ fn'.started = fn.started /\ fn'.deleted = fn.deleted
    /\ fn.pc # "Dequeue" => fn'.started = fn.started /\ fn'.pc # "Dequeue"

\* C36 as stated: every non-null job taken from the queue gets one coroutine,
\* in the order of Enqueue and at most once; at the null job the dispatcher
\* stops, aborts the executor and starts no further job; a destruction of the
\* server, once begun, comes to its end
C36_EveryJobStarted ==
    /\ [](fn.op = "RunDispatcher" =>
             /\ StartedInOrder
             /\ Dequeued = {fn.started[i] : i \in 1..Len(fn.started)})
    /\ [][fn.op = "RunDispatcher" => StopsAtNull]_vars
    /\ (fn.op = "RunDispatcher" /\ fn.dtor = "Join") ~> (fn.dtor = "joined")

\* C36, amended: every non-null job taken from the queue gets one coroutine,
\* in the order of Enqueue and at most once, unless Executor()->Create throws:
\* then the job is deleted and never run.  At the null job the dispatcher
\* stops, aborts the executor and starts no further job (jobs enqueued behind
\* the null stay in the queue); a destruction of the server, once begun,
\* comes to its end
C36_JobStartedOrDeleted ==
    /\ [](fn.op = "RunDispatcher" =>
             /\ StartedInOrder
             /\ Dequeued = {fn.started[i] : i \in 1..Len(fn.started)} \cup fn.deleted
             /\ \A i \in 1..Len(fn.started) : fn.started[i] \notin fn.deleted)
    /\ [][fn.op = "RunDispatcher" => StopsAtNull]_vars
    /\ (fn.op = "RunDispatcher" /\ fn.dtor = "Join") ~> (fn.dtor = "joined")

\* the server was destroyed after two jobs were started in order, with a job
\* left in the queue behind the null
C36_Witness ==
    /\ fn.op = "RunDispatcher"
    /\ fn.dtor = "joined"
    /\ Len(fn.started) = 2
    /\ \E i \in 1..Len(fn.JQ_) : fn.JQ_[i] # NullJob

\* ---------------------------------------------------------------- C37
\* CachedSockets at the start of the run, and what the run took out of it
RunCached == SumUpTo(fn.qsize, MaxHostId)
RunRemoved == SumUpTo(fn.removed, MaxHostId)

\* the whole cache is in one queue, and the run visits that queue
OneVisitedQueue ==
    \E i \in QueueIds : i < fn.MaxConnId_ /\ fn.qsize[i] = RunCached

C38_AcquireNewestPurgeOldest ==
    [][/\ \A r \in Reqs :
             LET q == ConnList(proc[r].host) IN
             proc[r].pc = "drain" /\ proc'[r].pc = "drainDec" /\ QSize(q) >= 2 =>
                /\ proc'[r].res = q[Len(q)]
                /\ Lst_'[proc[r].host] = SubSeq(q, 1, Len(q) - 1)
       /\ LET q == Lst_[purger.i] IN
          purger.pc = "purgeDeq" /\ purger'.pc = "purgeDec" /\ QSize(q) >= 2 =>
             /\ SslIOStream'[q[1]] = NoStream
             /\ Lst_'[purger.i] = SubSeq(q, 2, Len(q))]_vars

\* ---------------------------------------------------------------- C39
\* the sockets that exist: held by a request, a connector or the purger, or
\* waiting in an idle queue
HeldSocks ==
    ({proc[p].conn : p \in Procs} \cup {proc[p].res : p \in Procs}
       \cup {proc[p].res2 : p \in Procs} \cup {purger.res}
       \cup UNION {{Lst_[h][i] : i \in 1..Len(Lst_[h])} : h \in QueueIds}) \ {NoSock}

\* this step makes the socket s: Connect opens the foreground socket of r, or
\* a connector with no socket of its own connects a fresh one
Opens(s) ==
    \/ \E r \in Reqs : s = OwnSock(r) /\ proc[r].pc = "drain" /\ proc'[r].pc = "wait"
    \/ \E j \in Jobs : s = JobSock(j) /\ proc[j].pc = "run" /\ proc[j].res = NoSock

\* C39: a request that fails between Connect and the receipt of the response
\* (the handshake failed, was cancelled or did not pass the hostname check, or
\* the send failed) reports the error and closes its connection: the socket
\* is in no idle queue and with no request, connector or purger afterwards;
\* and a socket that is gone never comes back
C39_FailedHandshakeClosed ==
    [][/\ \A r \in Reqs :
             proc[r].pc = "tls" /\ proc'[r].pc = "done" =>
                /\ proc[r].conn \notin HeldSocks'
                /\ SslIOStream'[proc[r].conn] = NoStream
                /\ ActiveSockets' = ActiveSockets - 1
                /\ hndl'[r].nError = hndl[r].nError + 1
                /\ hndl'[r].nResponse = 0
                /\ Lst_' = Lst_
       /\ \A s \in HeldSocks' \ HeldSocks : Opens(s)]_vars

\* a request whose handshake did not pass the hostname check has ended with
\* that error while another connection of the host waits in the idle queue
C39_Witness ==
    \E r \in Reqs :
       /\ proc[r].pc = "done"
       /\ hndl[r].nError = 1
       /\ hndl[r].errText = "CheckCertHostname(client)"
       /\ Lst_[proc[r].host] # <<>>
       /\ \A i \in 1..Len(Lst_[proc[r].host]) : Lst_[proc[r].host][i] # OwnSock(r)

\* ---------------------------------------------------------------- C40
\* the sum of the statistics of all buckets of the leaf, of the buckets
\* 0..idx, and of the buckets whose bit idx is set
AllBuckets == SumUpTo(fn.getBucketStats, fn.bucketCount - 1)
BucketsUpTo(idx) == SumUpTo(fn.getBucketStats, idx)
BucketsWithBit(idx) ==
    SumUpTo([b \in 0..(fn.bucketCount - 1) |->
                IF (b \div 2 ^ idx) % 2 = 1 THEN fn.getBucketStats[b] ELSE 0],
            fn.bucketCount - 1)

\* C40: in every call updateSplitScore(trueStats, falseStats, idx) of
\* CalcScoresForLeaf trueStats + falseStats is the sum of all buckets; a
\* OneFeature float or CTR split makes bucketCount - 1 calls, idx = 0 ..
\* bucketCount - 2 in this order, falseStats the sum of the buckets 0..idx; a
\* one-hot split makes bucketCount calls, trueStats the bucket idx; for
\* BinarySplits trueStats is the sum of the buckets whose bit idx is set
C40_SplitStatsPartitionLeaf ==
    fn.op = "CalcScoresForLeaf" /\ fn.done =>
       /\ \A i \in 1..Len(fn.calls) :
             fn.calls[i].trueStats + fn.calls[i].falseStats = AllBuckets
       /\ fn.Type = "OneFeature" /\ fn.OneSplitType \in {"FloatFeature", "OnlineCtr"} =>
             /\ Len(fn.calls) = fn.bucketCount - 1
             /\ \A i \in 1..Len(fn.calls) :
                   /\ fn.calls[i].idx = i - 1
                   /\ fn.calls[i].falseStats = BucketsUpTo(i - 1)
       /\ fn.Type = "OneFeature" /\ fn.OneSplitType = "OneHotFeature" =>
             /\ Len(fn.calls) = fn.bucketCount
             /\ \A i \in 1..Len(fn.calls) :
                   /\ fn.calls[i].idx = i - 1
                   /\ fn.calls[i].trueStats = fn.getBucketStats[i - 1]
       /\ fn.Type = "BinarySplits" =>
             \A i \in 1..Len(fn.calls) :
                fn.calls[i].trueStats = BucketsWithBit(fn.calls[i].idx)

\* a one-hot split of four buckets that differ was scored: the second call
\* has another falseStats than the first
C40_Witness ==
    /\ fn.op = "CalcScoresForLeaf" /\ fn.done
    /\ fn.bucketCount = MaxBuckets
    /\ fn.getBucketStats[0] # fn.getBucketStats[1]
    /\ fn.getBucketStats[2] > 0
    /\ fn.Type = "OneFeature" /\ fn.OneSplitType = "OneHotFeature"
    /\ Len(fn.calls) = MaxBuckets
    /\ fn.calls[2].falseStats # fn.calls[1].falseStats

====
